---- MODULE Spec2Model ----
(***************************************************************************)
(* Congressional Tracker: the Express servers of the repository, each a    *)
(* version of server.js.  A version is one program with its own cache,     *)
(* environment and routes; the model runs one version at a time.           *)
(*                                                                         *)
(* Strings that the code slices (ZIP codes) are sequences of digits.       *)
(***************************************************************************)
EXTENDS Integers, Sequences, FiniteSets, TLC

VARIABLES
    server,     \* the version of server.js that is running
    env,        \* process.env: the API keys that are set
    up,         \* the Node process is alive
    now,        \* Date.now()
    cache,      \* const cache = new Map(): key -> {data, timestamp}
    req,        \* the requests: route, argument, position in the handler, locals,
                \* outbound calls in flight and issued, responses sent
    zipIn,      \* ZIP lookup development: the zipcode handed to the lookups
    zipOut,     \* ZIP lookup development: what each version's lookup returned
    selIn,      \* selection development: the zipcode, the feed and the Civic answer
    selOut,     \* selection development: the legislator each version selected
    votesIn,    \* grouping development: the votes ProPublica answered with
    votesOut    \* grouping development: what getVotingRecord returned

srvVars == <<server, env, up, now, cache, req>>
zipVars == <<zipIn, zipOut>>
selVars == <<selIn, selOut>>
votesVars == <<votesIn, votesOut>>
vars == <<server, env, up, now, cache, req, zipIn, zipOut, selIn, selOut, votesIn, votesOut>>

\* What no handler changes: the version, the environment, the other development
frame == <<server, env, zipIn, zipOut, selIn, selOut, votesIn, votesOut>>

(***************************************************************************)
(* JavaScript values and string operations                                 *)
(***************************************************************************)

\* null where the code returns an object or null
Null == [isNull |-> TRUE]

\* null where the code returns a string or null
NullStr == "null"

Min(a, b) == IF a < b THEN a ELSE b

\* String.prototype.substring(a, b) for 0 <= a <= b: indices clamp to the length
substring(s, a, b) == SubSeq(s, Min(a, Len(s)) + 1, Min(b, Len(s)))

\* String.prototype.startsWith
startsWith(s, p) == Len(s) >= Len(p) /\ SubSeq(s, 1, Len(p)) = p

\* district: null, and the district of a term that has none (a senator's)
NoDistrict == -1

\* obj[key] of an object literal, written as a set of <<key, value>> pairs
HasKey(obj, key) == \E e \in obj : e[1] = key
Prop(obj, key) == (CHOOSE e \in obj : e[1] = key)[2]

(***************************************************************************)
(* The static ZIP tables                                                   *)
(***************************************************************************)

\* part_001: const zipToState (two-digit prefix -> state)
zipToState_p1 ==
    { <<<<1,0>>, "NY">>, <<<<1,1>>, "NY">>, <<<<1,2>>, "NY">>, <<<<1,3>>, "NY">>, <<<<1,4>>, "NY">>,
      <<<<2,0>>, "DC">>, <<<<2,1>>, "MD">>, <<<<2,2>>, "VA">>, <<<<2,3>>, "VA">>, <<<<2,4>>, "VA">>,
      <<<<3,0>>, "GA">>, <<<<3,1>>, "GA">>, <<<<3,2>>, "FL">>, <<<<3,3>>, "FL">>, <<<<3,4>>, "FL">>,
      <<<<4,0>>, "KY">>, <<<<4,1>>, "KY">>, <<<<4,2>>, "KY">>, <<<<4,3>>, "OH">>, <<<<4,4>>, "OH">>,
      <<<<5,0>>, "VT">>, <<<<5,1>>, "MA">>, <<<<5,2>>, "MA">>, <<<<5,3>>, "MA">>, <<<<5,4>>, "MA">>,
      <<<<6,0>>, "IL">>, <<<<6,1>>, "IL">>, <<<<6,2>>, "IL">>, <<<<6,3>>, "MO">>, <<<<6,4>>, "MO">>,
      <<<<7,0>>, "LA">>, <<<<7,1>>, "LA">>, <<<<7,2>>, "AR">>, <<<<7,3>>, "OK">>, <<<<7,4>>, "OK">>,
      <<<<8,0>>, "CO">>, <<<<8,1>>, "CO">>, <<<<8,2>>, "WY">>, <<<<8,3>>, "ID">>, <<<<8,4>>, "UT">>,
      <<<<9,0>>, "CA">>, <<<<9,1>>, "CA">>, <<<<9,2>>, "CA">>, <<<<9,3>>, "CA">>, <<<<9,4>>, "CA">>,
      <<<<9,5>>, "CA">>, <<<<9,6>>, "CA">>, <<<<9,7>>, "OR">>, <<<<9,8>>, "WA">>, <<<<9,9>>, "AK">> }

\* part_002: const zipToState (exact five-digit ZIP -> {state, district})
zipToState_p2 ==
    { <<<<9,4,9,0,1>>, [state |-> "CA", district |-> 2]>>,
      <<<<9,4,9,0,3>>, [state |-> "CA", district |-> 2]>>,
      <<<<9,0,2,1,0>>, [state |-> "CA", district |-> 36]>>,
      <<<<9,4,1,0,2>>, [state |-> "CA", district |-> 11]>> }

\* part_002: const zipPrefixToState (three-digit prefix -> state)
zipPrefixToState ==
    { <<<<9,4,6>>, "CA">>, <<<<9,4,7>>, "CA">>, <<<<9,4,8>>, "CA">>, <<<<9,4,9>>, "CA">>,
      <<<<1,0,0>>, "NY">>, <<<<1,0,1>>, "NY">>, <<<<1,0,2>>, "NY">>, <<<<1,0,3>>, "NY">>,
      <<<<2,0,0>>, "DC">>, <<<<2,0,1>>, "VA">>, <<<<2,0,2>>, "DC">> }

\* server.js: const zipToDistrict (two-digit prefix -> {state, region, districts})
zipToDistrict ==
    { <<<<9,4>>, [state |-> "CA", region |-> "north", districts |-> <<2, 4, 5, 11, 12, 13, 14>>]>>,
      <<<<9,5>>, [state |-> "CA", region |-> "north", districts |-> <<1, 3, 4, 6, 7, 8, 9>>]>>,
      <<<<9,0>>, [state |-> "CA", region |-> "south",
                  districts |-> <<26, 27, 28, 29, 30, 31, 32, 33, 34, 35, 36, 37, 38, 39, 40>>]>>,
      <<<<9,1>>, [state |-> "CA", region |-> "south",
                  districts |-> <<27, 28, 29, 30, 31, 32, 35, 38, 39, 40>>]>>,
      <<<<9,2>>, [state |-> "CA", region |-> "south", districts |-> <<48, 49, 50, 51, 52>>]>>,
      <<<<9,3>>, [state |-> "CA", region |-> "south", districts |-> <<24, 25, 26>>]>>,
      <<<<1,0>>, [state |-> "NY", region |-> "all", districts |-> <<>>]>>,
      <<<<1,1>>, [state |-> "NY", region |-> "all", districts |-> <<>>]>>,
      <<<<2,0>>, [state |-> "DC", region |-> "all", districts |-> <<0>>]>>,
      <<<<3,0>>, [state |-> "GA", region |-> "all", districts |-> <<>>]>>,
      <<<<6,0>>, [state |-> "IL", region |-> "all", districts |-> <<>>]>>,
      <<<<9,8>>, [state |-> "WA", region |-> "all", districts |-> <<>>]>> }

\* server.js getRepFromMapping: const stateMapping (prefix -> {state, possibleDistricts})
stateMapping ==
    { <<<<1,0>>, [state |-> "NY", possibleDistricts |-> <<10, 11, 12, 13, 14, 15>>]>>,
      <<<<1,1>>, [state |-> "NY", possibleDistricts |-> <<1, 2, 3, 4, 5, 6, 7, 8, 9>>]>>,
      <<<<1,2>>, [state |-> "NY", possibleDistricts |-> <<16, 17, 18, 19, 20, 21>>]>>,
      <<<<0,2>>, [state |-> "MA", possibleDistricts |-> <<1, 2, 3, 4, 5, 6, 7, 8, 9>>]>>,
      <<<<0,6>>, [state |-> "CT", possibleDistricts |-> <<1, 2, 3, 4, 5>>]>>,
      <<<<2,0>>, [state |-> "DC", possibleDistricts |-> <<0>>]>>,
      <<<<2,1>>, [state |-> "MD", possibleDistricts |-> <<1, 2, 3, 4, 5, 6, 7, 8>>]>>,
      <<<<2,2>>, [state |-> "VA", possibleDistricts |-> <<1, 2, 3, 4, 5, 6, 7, 8, 9, 10, 11>>]>>,
      <<<<3,0>>, [state |-> "GA",
                  possibleDistricts |-> <<1, 2, 3, 4, 5, 6, 7, 8, 9, 10, 11, 12, 13, 14>>]>>,
      <<<<3,2>>, [state |-> "FL", possibleDistricts |-> <<1, 2, 3, 4, 5, 6, 7, 8, 9, 10>>]>>,
      <<<<3,3>>, [state |-> "FL",
                  possibleDistricts |-> <<11, 12, 13, 14, 15, 16, 17, 18, 19, 20, 21, 22, 23,
                                          24, 25, 26, 27>>]>>,
      <<<<6,0>>, [state |-> "IL", possibleDistricts |-> <<1, 2, 3, 4, 5, 6, 7, 8, 9>>]>>,
      <<<<4,8>>, [state |-> "TX", possibleDistricts |-> <<1, 2, 3, 4, 5, 6, 7, 8, 9, 10>>]>>,
      <<<<9,0>>, [state |-> "CA",
                  possibleDistricts |-> <<26, 27, 28, 29, 30, 31, 32, 33, 34, 35, 36, 37, 38,
                                          39, 40>>]>>,
      <<<<9,4>>, [state |-> "CA",
                  possibleDistricts |-> <<11, 12, 13, 14, 15, 16, 17, 18, 19, 20>>]>>,
      <<<<9,8>>, [state |-> "WA", possibleDistricts |-> <<1, 2, 3, 4, 5, 6, 7, 8, 9, 10>>]>> }

(***************************************************************************)
(* The ZIP lookups                                                         *)
(***************************************************************************)

\* getStateFromZip with the prefix cut one character too long
getStateFromZip_p1_LongPrefix(zipcode) ==
    LET prefix == substring(zipcode, 0, 3)
    IN  IF HasKey(zipToState_p1, prefix) THEN Prop(zipToState_p1, prefix) ELSE NullStr

\* part_001 getStateFromZip: zipToState[prefix] || null
getStateFromZip_p1(zipcode) ==
    LET prefix == substring(zipcode, 0, 2)
    IN  IF HasKey(zipToState_p1, prefix) THEN Prop(zipToState_p1, prefix) ELSE NullStr

\* part_002 getStateFromZip: exact match, then three-digit prefix, then the CA default
getStateFromZip_p2(zip) ==
    IF HasKey(zipToState_p2, zip)
    THEN Prop(zipToState_p2, zip)
    ELSE LET prefix == substring(zip, 0, 3)
         IN  IF HasKey(zipPrefixToState, prefix)
             THEN [state |-> Prop(zipPrefixToState, prefix), district |-> NoDistrict]
             ELSE [state |-> "CA", district |-> NoDistrict]

\* getLocationFromZip falling back to a California default instead of null
getLocationFromZip_Default(zipcode) ==
    LET prefix == substring(zipcode, 0, 2)
    IN  IF HasKey(zipToDistrict, prefix)
        THEN Prop(zipToDistrict, prefix)
        ELSE [state |-> "CA", region |-> "all", districts |-> <<>>]

\* server.js getLocationFromZip: zipToDistrict[prefix] || null
getLocationFromZip(zipcode) ==
    LET prefix == substring(zipcode, 0, 2)
    IN  IF HasKey(zipToDistrict, prefix) THEN Prop(zipToDistrict, prefix) ELSE Null

\* server.js getRepFromMapping: first possible district of the mapped state, or null
getRepFromMapping(zipcode) ==
    LET prefix == substring(zipcode, 0, 2)
    IN  IF HasKey(stateMapping, prefix)
        THEN LET mapping == Prop(stateMapping, prefix)
             IN  [state |-> mapping.state,
                  district |-> mapping.possibleDistricts[1],
                  needsRefinement |-> TRUE]
        ELSE Null

(***************************************************************************)
(* The versions of the server                                              *)
(***************************************************************************)

SrvAddr   == "server.js:15"      \* address lookup with cache and fallbacks
SrvRegion == "server.js:780"     \* ZIP lookup by state and region
SrvCivic  == "server.js:1104"    \* address lookup, Google Civic only
SrvEnh    == "server.js:1453"    \* "enhanced" ZIP lookup with getCached/setCache
P1Addr    == "part_001:17"       \* address lookup with cache
P1Civic   == "part_001:353"      \* address lookup, Google Civic only
P1Zip     == "part_001:641"      \* ZIP lookup by state
P2Cache   == "part_002:1"        \* ZIP lookup with cache
P3State   == "part_003:1"        \* address lookup by state

(***************************************************************************)
(* Outbound calls: fetch(url) and the reading of its body                  *)
(***************************************************************************)

\* The endpoints the handlers call
FEED        == "legislators-current.json"
CIVIC       == "civicinfo/v2/representatives"
FEC_SEARCH  == "fec/names/candidates"
FEC_TOTALS  == "fec/candidates/totals"
FEC_SCHED_A == "fec/schedules/schedule_a"
FEC_SCHED_B == "fec/schedules/schedule_b"
BILLS       == "congress/v3/bill"
PP_VOTES    == "propublica/members/votes"
PP_RECENT   == "propublica/house/votes/recent"
PP_STATEMENTS == "propublica/statements/search"

\* The API keys of process.env
GOOGLE_CIVIC_API_KEY == "GOOGLE_CIVIC_API_KEY"
PROPUBLICA_API_KEY == "PROPUBLICA_API_KEY"
CONGRESS_API_KEY == "CONGRESS_API_KEY"
FEC_API_KEY == "FEC_API_KEY"

\* How a call settles: the fetch promise rejects, or it resolves with a response
\* whose ok is false, or with an ok response and its JSON body
Rejected == [kind |-> "rejected"]
NotOk == [kind |-> "notok"]
Ok(body) == [kind |-> "ok", body |-> body]

\* A legislator of the feed: the name and the last of its terms
Leg(name, state, type, district) ==
    [name |-> name, state |-> state, type |-> type, district |-> district]

\* The bodies the legislators feed answers the handlers with: no legislator, no
\* House member, and members of two states
FeedBodies ==
    { <<>>,
      << Leg("CA-sen", "CA", "sen", NoDistrict) >>,
      << Leg("NY-12", "NY", "rep", 12), Leg("CA-sen", "CA", "sen", NoDistrict),
         Leg("CA-02", "CA", "rep", 2) >> }

\* FEC /names/candidates: results, each with an id and the office sought
FecSearchBodies ==
    { <<>>,
      << [id |-> "S0", office_sought |-> "S"], [id |-> "H0", office_sought |-> "H"] >> }

\* FEC /candidates/{id}/totals: results, each with the receipts of the cycle
FecTotalsBodies == { <<>>, << [receipts |-> 5000] >> }

\* Google Civic representatives: the offices, each with the state and district
\* of its divisionId, and the officials
Office(name, state, district, officialIndices) ==
    [name |-> name, state |-> state, district |-> district,
     officialIndices |-> officialIndices]

CivicBodies ==
    { [offices |-> <<>>, officials |-> <<>>],
      [offices |-> << Office(<<"U.S.", "Representative">>, "CA", 2, <<0>>),
                      Office(<<"U.S.", "Senator">>, "CA", NoDistrict, <<1, 2>>) >>,
       officials |-> << [name |-> "Official A"], [name |-> "Official B"],
                        [name |-> "Official C"] >>],
      [offices |-> << Office(<<"United", "States", "House", "of", "Representative", "s">>,
                             "CA", 2, <<2>>),
                      Office(<<"United", "States", "Senate">>, "CA", NoDistrict, <<0, 1>>) >>,
       officials |-> << [name |-> "Official A"], [name |-> "Official B"],
                        [name |-> "Official C"] >>] }

\* The officials of the Civic answers
Officials == << [name |-> "Official A"], [name |-> "Official B"],
               [name |-> "Official C"], [name |-> "Official D"] >>

\* Google Civic representatives as the Civic-only versions are answered: the
\* offices in several orders and spellings, and an office that is not a legislator's
CivicAnswers ==
    { [offices |-> <<>>, officials |-> <<>>],
      [offices |-> << Office(<<"President", "of", "the", "United", "States">>,
                             NullStr, NoDistrict, <<0>>) >>,
       officials |-> Officials],
      [offices |-> << Office(<<"U.S.", "Representative">>, "CA", 2, <<0>>),
                      Office(<<"U.S.", "Senator">>, "CA", NoDistrict, <<1, 2>>) >>,
       officials |-> Officials],
      [offices |-> << Office(<<"U.S.", "Senator">>, "CA", NoDistrict, <<0, 1>>),
                      Office(<<"U.S.", "Representative">>, "CA", 2, <<2>>) >>,
       officials |-> Officials],
      [offices |-> << Office(<<"U.S.", "Representative">>, "CA", 2, <<0>>),
                      Office(<<"U.S.", "Senator">>, "CA", NoDistrict, <<1>>),
                      Office(<<"U.S.", "Representative">>, "CA", 4, <<2>>),
                      Office(<<"U.S.", "Senator">>, "CA", NoDistrict, <<3>>) >>,
       officials |-> Officials],
      [offices |-> << Office(<<"u.s.", "senator">>, "CA", NoDistrict, <<0>>),
                      Office(<<"U.S.", "Representative">>, "CA", 2, <<1>>),
                      Office(<<"U.S.", "Senator">>, "CA", NoDistrict, <<2>>) >>,
       officials |-> Officials] }

\* FEC /schedules/schedule_b: the results
FecSchedBBodies == { << "Donor A" >> }

\* ProPublica /house/votes/recent: results.votes
PpRecentBodies == { << "Roll call 1" >> }

\* FEC /schedules/schedule_a/by_size/by_candidate: the results
FecSchedABodies == { << "size 200" >> }

\* A vote: the words of its question and of its bill's title that the topics look for
Vote(question, billTitle) == [question |-> question, billTitle |-> billTitle]

\* ProPublica /members/{id}/votes: results[0].votes, absent or a list of votes
PpVotesBodies ==
    { [hasVotes |-> FALSE, votes |-> <<>>],
      [hasVotes |-> TRUE,
       votes |-> << Vote({"motion"}, {}), Vote({"health"}, {"defense"}),
                    Vote({}, {}) >>] }

\* ProPublica /statements/search: the results
PpStatementsBodies == { <<>>, << "Statement 1" >> }

\* Congress.gov /bill/118: the bills field, absent or a list of bills
BillsBodies ==
    { [hasBills |-> FALSE, bills |-> <<>>],
      [hasBills |-> TRUE, bills |-> <<>>],
      [hasBills |-> TRUE, bills |-> << "HR-1" >>] }

Bodies(endpoint) ==
    CASE endpoint = FEED -> FeedBodies
      [] endpoint = FEC_SEARCH -> FecSearchBodies
      [] endpoint = FEC_TOTALS -> FecTotalsBodies
      [] endpoint = BILLS -> BillsBodies
      [] endpoint = CIVIC -> CivicBodies
      [] endpoint = FEC_SCHED_B -> FecSchedBBodies
      [] endpoint = PP_RECENT -> PpRecentBodies
      [] endpoint = FEC_SCHED_A -> FecSchedABodies
      [] endpoint = PP_VOTES -> PpVotesBodies
      [] endpoint = PP_STATEMENTS -> PpStatementsBodies

Outcomes(endpoint) == { Rejected, NotOk } \cup { Ok(b) : b \in Bodies(endpoint) }

(***************************************************************************)
(* Requests                                                                *)
(***************************************************************************)

\* Requests served concurrently
MaxReq == 2

Reqs == 1..MaxReq

\* A request that has not arrived yet
NoRequest ==
    [route |-> "none", arg |-> <<>>, pc |-> "new", loc |-> Null,
     inflight |-> {}, issued |-> <<>>, failed |-> {}, resp |-> <<>>]

\* The handler of `route` starts on a request with parameter `arg`
Arrive(route, arg) == [NoRequest EXCEPT !.route = route, !.arg = arg, !.pc = "run"]

\* fetch(url): the call is issued and is in flight until it settles
Issue(rq, endpoint) ==
    [rq EXCEPT !.inflight = @ \cup {endpoint}, !.issued = Append(@, endpoint)]

\* A settled call that stays in flight
Settled_InFlight(rq, endpoint, o) ==
    [rq EXCEPT !.failed = IF o.kind = "ok" THEN @ ELSE @ \cup {endpoint}]

\* The call settled with outcome o; the calls that failed (a rejected fetch or a
\* response that is not ok) are remembered for the claims
Settled(rq, endpoint, o) ==
    [rq EXCEPT !.inflight = @ \ {endpoint},
               !.failed = IF o.kind = "ok" THEN @ ELSE @ \cup {endpoint}]

\* A send that goes out twice
Send_Twice(rq, status, body) ==
    [rq EXCEPT !.resp = @ \o << [status |-> status, body |-> body],
                                [status |-> status, body |-> body] >>]

\* res.json(body) / res.status(code).json(body)
Send(rq, status, body) ==
    [rq EXCEPT !.resp = Append(@, [status |-> status, body |-> body])]

\* An await that gives up at once: the call is issued and a 504 is sent
Await_TimedOut(rq, pc, endpoint) ==
    [Send(Issue(rq, endpoint), 504, [error |-> "Gateway Timeout"]) EXCEPT !.pc = "done"]

\* An await that issues the call a second time
Await_Retried(rq, pc, endpoint) == [Issue(Issue(rq, endpoint), endpoint) EXCEPT !.pc = pc]

\* The handler awaits the call to `endpoint` at position `pc`
Await(rq, pc, endpoint) == [Issue(rq, endpoint) EXCEPT !.pc = pc]

\* The handler returned
Finish(rq) == [rq EXCEPT !.pc = "done"]

\* The requests a version serves at a time.  The handler of server.js:1453 runs
\* up to six outbound calls and three cache lookups; its requests are served
\* one after the other
Clients(version) == IF version = SrvEnh THEN 1 ELSE MaxReq

\* The routes whose handlers read and write nothing the requests share (no
\* cache, and no throw that nothing catches): their steps commute with those of
\* every other request, and such a request is run with no other in progress
RoutesAlone == { "voting-record", "campaign-finance", "transcripts", "search" }

\* A request arrives on a free connection, the lowest-numbered one
MayArrive(r) ==
    /\ up
    /\ r <= Clients(server)
    /\ req[r].route = "none"
    /\ \A q \in Reqs : q < r => req[q].route # "none"
    /\ \A q \in Reqs : req[q].route \notin RoutesAlone

\* A request of a route run alone arrives
MayArriveAlone(r) ==
    /\ MayArrive(r)
    /\ \A q \in Reqs : req[q].route = "none"

\* The response has been delivered and no call of the request is in flight: the
\* connection is free for the next request
Close(r) ==
    /\ up
    /\ req[r].pc = "done"
    /\ req[r].inflight = {}
    /\ req' = [req EXCEPT ![r] = NoRequest]
    /\ UNCHANGED <<frame, up, now, cache>>

\* Request r of `route` is suspended at `pc`, awaiting the call to `endpoint`
AtAwait(r, route, pc, endpoint) ==
    /\ up
    /\ req[r].route = route
    /\ req[r].pc = pc
    /\ endpoint \in req[r].inflight

\* const CACHE_DURATION = 60 * 60 * 1000 (3600000 in two versions)
CACHE_DURATION == 3600000

\* A set that leaves the entry of a key already there as it is
MapSet_KeepFirst(map, key, value) ==
    [k \in DOMAIN map \cup {key} |-> IF k \in DOMAIN map THEN map[k] ELSE value]

\* cache.set(key, value)
MapSet(map, key, value) ==
    [k \in DOMAIN map \cup {key} |-> IF k = key THEN value ELSE map[k]]

\* A test that finds no entry fresh
Fresh_Never(map, key, duration) ==
    /\ key \in DOMAIN map
    /\ now - map[key].timestamp < 0

\* The test with an entry of exactly the duration still fresh
Fresh_Inclusive(map, key, duration) ==
    /\ key \in DOMAIN map
    /\ now - map[key].timestamp <= duration

\* cached && Date.now() - cached.timestamp < CACHE_DURATION
Fresh(map, key, duration) ==
    /\ key \in DOMAIN map
    /\ now - map[key].timestamp < duration

\* The ZIP codes requested: one that every table maps and one that none does;
\* of the versions that cache by ZIP code, the mapped one
ReqZips(version) ==
    IF version \in {P2Cache, SrvEnh}
    THEN { <<9,4,9,0,3>> }
    ELSE { <<9,4,9,0,3>>, <<5,9,0,0,1>> }

(***************************************************************************)
(* Arrays                                                                  *)
(***************************************************************************)

\* Array.prototype.find: the first element passing the test, or undefined
Find(arr, Test(_)) ==
    IF \E i \in 1..Len(arr) : Test(arr[i])
    THEN arr[CHOOSE i \in 1..Len(arr) : Test(arr[i]) /\ \A j \in 1..(i - 1) : ~ Test(arr[j])]
    ELSE Null

\* arr[0]
First(arr) == IF Len(arr) > 0 THEN arr[1] ELSE Null

\* Array.prototype.filter
Filter(arr, Test(_)) == SelectSeq(arr, Test)

\* String.prototype.toLowerCase, word by word
Lower(word) ==
    CASE word = "U.S." -> "u.s."
      [] word = "United" -> "united"
      [] word = "States" -> "states"
      [] word = "Senator" -> "senator"
      [] word = "Senate" -> "senate"
      [] word = "Representative" -> "representative"
      [] word = "House" -> "house"
      [] word = "President" -> "president"
      [] OTHER -> word

toLowerCase(text) == [i \in 1..Len(text) |-> Lower(text[i])]

\* String.prototype.includes on texts written as sequences of words, a plural
\* as the word and its ending
IncludesWords(text, words) ==
    \E i \in 0..(Len(text) - Len(words)) : SubSeq(text, i + 1, i + Len(words)) = words

\* Array.prototype.includes
Includes(arr, x) == \E i \in 1..Len(arr) : arr[i] = x

\* a || b for objects
OrElse(a, b) == IF a # Null THEN a ELSE b

(***************************************************************************)
(* An async handler throws where nothing catches                           *)
(***************************************************************************)

\* The body of Express 5's default error handler
FrameworkError == [kind |-> "Internal Server Error"]

\* The promise of request r's handler rejects.  Express 5 hands the error to its
\* default error handler, which answers 500; Express 4 drops the promise, so no
\* response is ever sent, and node ends the process on the unhandled rejection
\* unless it is started with --unhandled-rejections=warn.
UnhandledRejection(r, rq) ==
    \/ /\ req' = [req EXCEPT ![r] = Finish(Send(rq, 500, FrameworkError))]
       /\ up' = up
    \/ /\ req' = [req EXCEPT ![r] = [rq EXCEPT !.pc = "rejected"]]
       /\ up' = up
    \/ /\ req' = [req EXCEPT ![r] = [rq EXCEPT !.pc = "rejected"]]
       /\ up' = FALSE

(***************************************************************************)
(* Campaign finance and bills as the ZIP handlers build them               *)
(***************************************************************************)

\* `$${totalReceipts.toLocaleString()}`
Dollars(amount) == [dollars |-> amount]

\* A literal text where an amount may stand
Text(t) == [text |-> t]

\* fundingData rebuilt from the first result of FEC totals
FundingFromTotals(totals) == [totalRaised |-> Dollars(totals[1].receipts)]

(***************************************************************************)
(* server.js:780  GET /api/congressman/:zipcode                            *)
(***************************************************************************)

\* let fundingData = { totalRaised: 'Loading...', sources: [] }
FundingLoading == [totalRaised |-> Text("Loading...")]

\* The selection of server.js:780 without the regions: the first House member of
\* the ZIP code's state, else of the feed
SelectRep_Region_StateWide(zipcode, legislators) ==
    LET location == getLocationFromZip(zipcode)
        byState == IF location = Null THEN Null
                   ELSE Find(legislators,
                             LAMBDA l : l.state = location.state /\ l.type = "rep")
    IN  OrElse(byState, Find(legislators, LAMBDA l : l.type = "rep"))

\* server.js:851-891: the representative for the ZIP code's state and region
SelectRep_Region(zipcode, legislators) ==
    LET location == getLocationFromZip(zipcode)
        northernCalReps ==
            SelectSeq(legislators,
                      LAMBDA l : /\ l.state = "CA"
                                 /\ l.type = "rep"
                                 /\ Includes(location.districts, l.district))
        byLocation ==
            IF location = Null THEN Null
            ELSE IF location.state = "CA" /\ location.region = "north"
                 THEN IF startsWith(zipcode, <<9, 4, 9>>)
                      THEN OrElse(Find(northernCalReps,
                                       LAMBDA x : x.district = 2 \/ x.district = 4),
                                  First(northernCalReps))
                      ELSE First(northernCalReps)
                 ELSE Find(legislators,
                           LAMBDA l : l.state = location.state /\ l.type = "rep")
    IN  OrElse(byLocation, Find(legislators, LAMBDA l : l.type = "rep"))

\* server.js:1002-1035: responseData
ResponseData_Region(rep, funding, votingRecords) ==
    [representative |-> [name |-> rep.name, state |-> rep.state],
     funding |-> funding,
     votingRecord |-> votingRecords]

\* server.js:1042-1058: the payload the catch block builds around
\* getStateFromZip(zipcode), a function this version does not define
Fallback_Region(state) ==
    [error |-> TRUE,
     representative |-> [name |-> "Error Loading Data", state |-> state],
     funding |-> [totalRaised |-> Text("N/A")],
     votingRecord |-> <<>>]

\* server.js:991-998: the voting record when the bills call rejects
VotingComingSoon == << "Recent voting data coming soon" >>

\* The handler starts and awaits the legislators feed
Congressman_Region_Start(r) ==
    /\ server = SrvRegion
    /\ MayArrive(r)
    /\ \E zipcode \in ReqZips(server) :
          req' = [req EXCEPT ![r] = Await(Arrive("congressman", zipcode), "feed", FEED)]
    /\ UNCHANGED <<frame, up, now, cache>>

\* The feed settled: on a failure the catch block runs and throws a ReferenceError
\* (getStateFromZip is not defined) before res.json is reached
Congressman_Region_Feed(r) ==
    /\ server = SrvRegion
    /\ AtAwait(r, "congressman", "feed", FEED)
    /\ \E o \in Outcomes(FEED) :
          LET rq == Settled(req[r], FEED, o)
              rep == IF o.kind = "ok" THEN SelectRep_Region(rq.arg, o.body) ELSE Null
          IN  IF rep = Null
              THEN UnhandledRejection(r, rq)
              ELSE /\ req' = [req EXCEPT ![r] =
                                Await([rq EXCEPT !.loc = [rep |-> rep,
                                                          funding |-> FundingLoading]],
                                      "fecSearch", FEC_SEARCH)]
                   /\ up' = up
    /\ UNCHANGED <<frame, now, cache>>

\* The FEC candidate search settled
Congressman_Region_FecSearch(r) ==
    /\ server = SrvRegion
    /\ AtAwait(r, "congressman", "fecSearch", FEC_SEARCH)
    /\ \E o \in Outcomes(FEC_SEARCH) :
          LET rq == Settled(req[r], FEC_SEARCH, o)
          IN  req' = [req EXCEPT ![r] =
                        IF o.kind = "ok" /\ Len(o.body) > 0
                        THEN Await(rq, "fecTotals", FEC_TOTALS)
                        ELSE Await(rq, "bills", BILLS)]
    /\ UNCHANGED <<frame, up, now, cache>>

\* The FEC totals settled
Congressman_Region_FecTotals(r) ==
    /\ server = SrvRegion
    /\ AtAwait(r, "congressman", "fecTotals", FEC_TOTALS)
    /\ \E o \in Outcomes(FEC_TOTALS) :
          LET rq == Settled(req[r], FEC_TOTALS, o)
              funded == IF o.kind = "ok" /\ Len(o.body) > 0
                        THEN [rq EXCEPT !.loc.funding = FundingFromTotals(o.body)]
                        ELSE rq
          IN  req' = [req EXCEPT ![r] = Await(funded, "bills", BILLS)]
    /\ UNCHANGED <<frame, up, now, cache>>

\* The Congress.gov bills settled: the response is sent
Congressman_Region_Bills(r) ==
    /\ server = SrvRegion
    /\ AtAwait(r, "congressman", "bills", BILLS)
    /\ \E o \in Outcomes(BILLS) :
          LET rq == Settled(req[r], BILLS, o)
              votingRecords ==
                  CASE o.kind = "rejected" -> VotingComingSoon
                    [] o.kind = "notok" -> <<>>
                    [] o.kind = "ok" ->
                         IF o.body.hasBills
                         THEN SubSeq(o.body.bills, 1, Min(5, Len(o.body.bills)))
                         ELSE <<>>
          IN  req' = [req EXCEPT ![r] =
                        Finish(Send(rq, 200,
                                    ResponseData_Region(rq.loc.rep, rq.loc.funding,
                                                        votingRecords)))]
    /\ UNCHANGED <<frame, up, now, cache>>

(***************************************************************************)
(* part_001:641  GET /api/congressman/:zipcode                             *)
(***************************************************************************)

\* part_001:683-698: a representative of the ZIP code's state, else the first one
SelectRep_p1(zipcode, legislators) ==
    LET state == getStateFromZip_p1(zipcode)
        byState == IF state # NullStr
                   THEN Find(legislators, LAMBDA l : l.state = state /\ l.type = "rep")
                   ELSE Null
    IN  OrElse(byState, Find(legislators, LAMBDA l : l.type = "rep"))

\* part_001:789-802: the sample voting record of every response
SampleVotes_p1 == << "H.R. 1234 - Infrastructure Investment Act",
                     "H.R. 5678 - Healthcare Reform Act" >>

\* part_001:777-825: responseData
ResponseData_p1(rep, funding) ==
    [representative |-> [name |-> rep.name, state |-> rep.state],
     funding |-> funding,
     votingRecord |-> SampleVotes_p1]

\* part_001:833-859: the sample data returned if the APIs fail
Fallback_p1(zipcode) ==
    [representative |-> [name |-> "Data Temporarily Unavailable",
                         state |-> IF getStateFromZip_p1(zipcode) # NullStr
                                   THEN getStateFromZip_p1(zipcode) ELSE "Unknown"],
     funding |-> [totalRaised |-> Text("Data loading...")],
     votingRecord |-> << "Voting records will be available soon" >>]

Congressman_p1_Start(r) ==
    /\ server = P1Zip
    /\ MayArrive(r)
    /\ \E zipcode \in ReqZips(server) :
          req' = [req EXCEPT ![r] = Await(Arrive("congressman", zipcode), "feed", FEED)]
    /\ UNCHANGED <<frame, up, now, cache>>

\* The feed settled: on a failure, or with no House member in the feed, the catch
\* block answers with the sample data
Congressman_p1_Feed(r) ==
    /\ server = P1Zip
    /\ AtAwait(r, "congressman", "feed", FEED)
    /\ \E o \in Outcomes(FEED) :
          LET rq == Settled(req[r], FEED, o)
              rep == IF o.kind = "ok" THEN SelectRep_p1(rq.arg, o.body) ELSE Null
          IN  req' = [req EXCEPT ![r] =
                        IF rep = Null
                        THEN Finish(Send(rq, 200, Fallback_p1(rq.arg)))
                        ELSE Await([rq EXCEPT !.loc = [rep |-> rep,
                                                       funding |-> FundingLoading]],
                                   "fecSearch", FEC_SEARCH)]
    /\ UNCHANGED <<frame, up, now, cache>>

\* The FEC candidate search settled
Congressman_p1_FecSearch(r) ==
    /\ server = P1Zip
    /\ AtAwait(r, "congressman", "fecSearch", FEC_SEARCH)
    /\ \E o \in Outcomes(FEC_SEARCH) :
          LET rq == Settled(req[r], FEC_SEARCH, o)
          IN  req' = [req EXCEPT ![r] =
                        IF o.kind = "ok" /\ Len(o.body) > 0
                        THEN Await(rq, "fecTotals", FEC_TOTALS)
                        ELSE Finish(Send(rq, 200,
                                         ResponseData_p1(rq.loc.rep, rq.loc.funding)))]
    /\ UNCHANGED <<frame, up, now, cache>>

\* The FEC totals settled: the response is sent
Congressman_p1_FecTotals(r) ==
    /\ server = P1Zip
    /\ AtAwait(r, "congressman", "fecTotals", FEC_TOTALS)
    /\ \E o \in Outcomes(FEC_TOTALS) :
          LET rq == Settled(req[r], FEC_TOTALS, o)
              funding == IF o.kind = "ok" /\ Len(o.body) > 0
                         THEN FundingFromTotals(o.body)
                         ELSE rq.loc.funding
          IN  req' = [req EXCEPT ![r] =
                        Finish(Send(rq, 200, ResponseData_p1(rq.loc.rep, funding)))]
    /\ UNCHANGED <<frame, up, now, cache>>

(***************************************************************************)
(* part_002:1  GET /api/congressman/:zipcode                               *)
(***************************************************************************)

\* part_002:56: `rep-${zipcode}`
CacheKey_p2(zipcode) == <<"rep-", zipcode>>

\* The selection of part_002 without the senators' fallback
SelectRep_p2_NoSenators(zipcode, legislators) ==
    LET location == getStateFromZip_p2(zipcode)
        exact == Filter(legislators,
                        LAMBDA l :
                            /\ l.state = location.state
                            /\ \/ /\ location.district # NoDistrict
                                  /\ l.type = "rep"
                                  /\ l.district = location.district
                               \/ /\ location.district = NoDistrict
                                  /\ l.type = "sen")
    IN  OrElse(First(exact), First(legislators))

\* part_002:69-99: the legislators of the location, else its senators, else the
\* first legislator of the feed
SelectRep_p2(zipcode, legislators) ==
    LET location == getStateFromZip_p2(zipcode)
        exact == Filter(legislators,
                        LAMBDA l :
                            /\ l.state = location.state
                            /\ \/ /\ location.district # NoDistrict
                                  /\ l.type = "rep"
                                  /\ l.district = location.district
                               \/ /\ location.district = NoDistrict
                                  /\ l.type = "sen")
        representatives ==
            IF Len(exact) = 0
            THEN Filter(legislators, LAMBDA l : l.state = location.state /\ l.type = "sen")
            ELSE exact
    IN  OrElse(First(representatives), First(legislators))

\* part_002:102-105: let fundingData = { totalRaised: 'Data unavailable', sources: [] }
FundingUnavailable == [totalRaised |-> Text("Data unavailable")]

\* part_002:186-223: responseData
ResponseData_p2(rep, funding) ==
    [representative |-> [name |-> rep.name, state |-> rep.state],
     funding |-> funding,
     votingRecord |-> << "Recent Infrastructure Bill" >>]

\* part_002:236-239: the body of the 500 the catch block answers with
ErrorPayload_p2 ==
    [error |-> "Unable to fetch representative data", message |-> "Please try again later"]

\* part_002:226-232: the response is cached under the ZIP code's key and sent
Respond_p2(r, rq, funding) ==
    LET responseData == ResponseData_p2(rq.loc.rep, funding)
    IN  /\ cache' = MapSet(cache, CacheKey_p2(rq.arg),
                           [data |-> responseData, timestamp |-> now])
        /\ req' = [req EXCEPT ![r] = Finish(Send(rq, 200, responseData))]

\* The handler starts: a fresh cache entry is served, else the feed is awaited
Congressman_p2_Start(r) ==
    /\ server = P2Cache
    /\ MayArrive(r)
    /\ \E zipcode \in ReqZips(server) :
          LET rq == Arrive("congressman", zipcode)
              cacheKey == CacheKey_p2(zipcode)
          IN  req' = [req EXCEPT ![r] =
                        IF Fresh(cache, cacheKey, CACHE_DURATION)
                        THEN Finish(Send(rq, 200, cache[cacheKey].data))
                        ELSE Await(rq, "feed", FEED)]
    /\ UNCHANGED <<frame, up, now, cache>>

\* The feed settled.  There is no ok check: the body of an error response is not
\* a JSON array, so reading or filtering it throws, as does an empty feed at
\* rep.terms; the catch block answers 500
Congressman_p2_Feed(r) ==
    /\ server = P2Cache
    /\ AtAwait(r, "congressman", "feed", FEED)
    /\ \E o \in Outcomes(FEED) :
          LET rq == Settled(req[r], FEED, o)
              rep == IF o.kind = "ok" THEN SelectRep_p2(rq.arg, o.body) ELSE Null
          IN  req' = [req EXCEPT ![r] =
                        IF rep = Null
                        THEN Finish(Send(rq, 500, ErrorPayload_p2))
                        ELSE Await([rq EXCEPT !.loc = [rep |-> rep]],
                                   "fecSearch", FEC_SEARCH)]
    /\ UNCHANGED <<frame, up, now, cache>>

\* A candidate search whose failure is answered with the error payload
Congressman_p2_FecSearch_Error(r) ==
    /\ server = P2Cache
    /\ AtAwait(r, "congressman", "fecSearch", FEC_SEARCH)
    /\ \E o \in Outcomes(FEC_SEARCH) :
          LET rq == Settled(req[r], FEC_SEARCH, o)
          IN  CASE o.kind # "ok" ->
                     /\ req' = [req EXCEPT ![r] = Finish(Send(rq, 500, ErrorPayload_p2))]
                     /\ cache' = cache
                [] Len(o.body) > 0 ->
                     /\ req' = [req EXCEPT ![r] = Await(rq, "fecTotals", FEC_TOTALS)]
                     /\ cache' = cache
                [] OTHER -> Respond_p2(r, rq, FundingUnavailable)
    /\ UNCHANGED <<frame, up, now>>

\* The FEC candidate search settled
Congressman_p2_FecSearch(r) ==
    /\ server = P2Cache
    /\ AtAwait(r, "congressman", "fecSearch", FEC_SEARCH)
    /\ \E o \in Outcomes(FEC_SEARCH) :
          LET rq == Settled(req[r], FEC_SEARCH, o)
          IN  IF o.kind = "ok" /\ Len(o.body) > 0
              THEN /\ req' = [req EXCEPT ![r] = Await(rq, "fecTotals", FEC_TOTALS)]
                   /\ cache' = cache
              ELSE Respond_p2(r, rq, FundingUnavailable)
    /\ UNCHANGED <<frame, up, now>>

\* The FEC totals settled
Congressman_p2_FecTotals(r) ==
    /\ server = P2Cache
    /\ AtAwait(r, "congressman", "fecTotals", FEC_TOTALS)
    /\ \E o \in Outcomes(FEC_TOTALS) :
          LET rq == Settled(req[r], FEC_TOTALS, o)
          IN  Respond_p2(r, rq, IF o.kind = "ok" /\ Len(o.body) > 0
                                THEN FundingFromTotals(o.body)
                                ELSE FundingUnavailable)
    /\ UNCHANGED <<frame, up, now>>

(***************************************************************************)
(* server.js:1453  GET /api/congressman/:zipcode and GET /api/search/:query *)
(***************************************************************************)

\* server.js:1466-1472 getCached: the data of a fresh entry, or null
getCached(key) == IF Fresh(cache, key, CACHE_DURATION) THEN cache[key].data ELSE Null

\* A setCache that drops the expired entries of the other keys
setCache_Evicting(map, key, data) ==
    [k \in { j \in DOMAIN map : now - map[j].timestamp < CACHE_DURATION } \cup {key} |->
        IF k = key THEN [data |-> data, timestamp |-> now] ELSE map[k]]

\* server.js:1475-1477 setCache on the cache as the step has it so far
setCache(map, key, data) == MapSet(map, key, [data |-> data, timestamp |-> now])

\* server.js:1492-1510: the result built from the first official and the first
\* office of the Civic answer, the state and district read off its divisionId;
\* with no office the read of divisionId throws and the catch returns null
CivicResult_Enh(civicData) ==
    IF Len(civicData.offices) = 0 THEN Null
    ELSE [state |-> civicData.offices[1].state,
          district |-> civicData.offices[1].district,
          needsRefinement |-> FALSE]

\* server.js:1645-1669: a House member of the state and district, else of the
\* state, else the first House member of the feed
SelectRep_Enh(repInfo, legislators) ==
    LET exact ==
            IF repInfo # Null
            THEN Find(legislators,
                      LAMBDA l : /\ l.state = repInfo.state
                                 /\ l.type = "rep"
                                 /\ \/ repInfo.district = NoDistrict
                                    \/ repInfo.district = 0
                                    \/ l.district = repInfo.district)
            ELSE Null
        byState ==
            IF exact = Null /\ repInfo # Null
            THEN Find(legislators, LAMBDA l : l.state = repInfo.state /\ l.type = "rep")
            ELSE exact
    IN  OrElse(byState, Find(legislators, LAMBDA l : l.type = "rep"))

\* server.js:1756-1760: let fundingData = { totalRaised: 'Loading...', ... }
FundingLoading_Enh == [totalRaised |-> Text("Loading..."), topContributors |-> <<>>]

\* server.js:1783-1839: fundingData from the two answers Promise.all resolved with;
\* the object rebuilt from the totals has no topContributors until schedule_b gives them
FundingFromDetail_Enh(totals, sched) ==
    LET base == IF totals.kind = "ok" /\ Len(totals.body) > 0
                THEN [totalRaised |-> Dollars(totals.body[1].receipts)]
                ELSE FundingLoading_Enh
    IN  IF sched.kind = "ok"
        THEN [totalRaised |-> base.totalRaised,
              topContributors |-> SubSeq(sched.body, 1, Min(5, Len(sched.body)))]
        ELSE base

\* server.js:1606-1619: the sample votes returned without a ProPublica answer
SampleVotes_Enh == << "H.R. 1234 - Infrastructure Investment Act",
                      "H.R. 5678 - Healthcare Reform Act" >>

\* responseData calling the data approximate also when no location was found
ResponseData_Enh_NullApproximate(repInfo, rep, funding, votingRecords) ==
    [representative |-> [name |-> rep.name, state |-> rep.state],
     funding |-> funding,
     votingRecord |-> votingRecords,
     metadata |-> [dataSource |-> IF repInfo = Null \/ repInfo.needsRefinement
                                  THEN "approximate" ELSE "exact"]]

\* server.js:1688-1722: responseData
ResponseData_Enh(repInfo, rep, funding, votingRecords) ==
    [representative |-> [name |-> rep.name, state |-> rep.state],
     funding |-> funding,
     votingRecord |-> votingRecords,
     metadata |-> [dataSource |-> IF repInfo # Null /\ repInfo.needsRefinement
                                  THEN "approximate" ELSE "exact"]]

\* server.js:1730-1746: the body of the 500 the catch block answers with
Fallback_Enh ==
    [error |-> TRUE,
     representative |-> [name |-> "Data Temporarily Unavailable", state |-> "Unknown"],
     funding |-> [totalRaised |-> Text("Loading...")],
     votingRecord |-> <<>>]

RepKey_Enh(zipcode) == <<"rep_", zipcode>>
FundingKey_Enh(repName) == <<"funding_", repName>>
VotesKey_Enh(memberName) == <<"votes_", memberName>>

\* The locals of the handler
Locals_Enh(repInfo, rep, funding, totals, sched) ==
    [repInfo |-> repInfo, rep |-> rep, funding |-> funding, totals |-> totals, sched |-> sched]

\* server.js:1682-1724: getVotingRecords on the cache as the step has it so far,
\* then the response, unless the ProPublica call has to be awaited
ThenVotes_Enh(r, rq, funding, cache1) ==
    LET key == VotesKey_Enh(rq.loc.rep.name)
        withFunding == [rq EXCEPT !.loc.funding = funding]
        respond(votes) ==
            req' = [req EXCEPT ![r] =
                      Finish(Send(withFunding, 200,
                                  ResponseData_Enh(rq.loc.repInfo, rq.loc.rep, funding, votes)))]
    IN  /\ cache' = cache1
        /\ IF Fresh(cache1, key, CACHE_DURATION)
           THEN respond(cache1[key].data)
           ELSE IF PROPUBLICA_API_KEY \in env
                THEN req' = [req EXCEPT ![r] = Await(withFunding, "ppRecent", PP_RECENT)]
                ELSE respond(SampleVotes_Enh)

\* server.js:1634-1641: with the location known, the legislators feed is awaited
ThenFeed_Enh(rq, repInfo) ==
    Await([rq EXCEPT !.loc = Locals_Enh(repInfo, Null, Null, Null, Null)], "feed", FEED)

\* The handler starts in getRepresentativeByZip: a fresh entry, else the Civic
\* call if its key is set, else the static mapping
Congressman_Enh_Start(r) ==
    /\ server = SrvEnh
    /\ MayArrive(r)
    /\ \E zipcode \in ReqZips(server) :
          LET rq == Arrive("congressman", zipcode)
              cached == getCached(RepKey_Enh(zipcode))
          IN  req' = [req EXCEPT ![r] =
                        IF cached # Null THEN ThenFeed_Enh(rq, cached)
                        ELSE IF GOOGLE_CIVIC_API_KEY \in env
                             THEN Await(rq, "civic", CIVIC)
                             ELSE ThenFeed_Enh(rq, getRepFromMapping(zipcode))]
    /\ UNCHANGED <<frame, up, now, cache>>

\* The Civic call settled
Congressman_Enh_Civic(r) ==
    /\ server = SrvEnh
    /\ AtAwait(r, "congressman", "civic", CIVIC)
    /\ \E o \in Outcomes(CIVIC) :
          LET rq == Settled(req[r], CIVIC, o)
              found == o.kind = "ok" /\ Len(o.body.officials) > 0
              result == IF found THEN CivicResult_Enh(o.body) ELSE Null
              repInfo == CASE o.kind = "rejected" -> Null
                           [] found -> result
                           [] OTHER -> getRepFromMapping(rq.arg)
          IN  /\ cache' = IF result # Null
                          THEN setCache(cache, RepKey_Enh(rq.arg), result)
                          ELSE cache
              /\ req' = [req EXCEPT ![r] = ThenFeed_Enh(rq, repInfo)]
    /\ UNCHANGED <<frame, up, now>>

\* The feed settled: on a failure, or with no House member in the feed, the catch
\* block answers 500; else getEnhancedFundingData starts
Congressman_Enh_Feed(r) ==
    /\ server = SrvEnh
    /\ AtAwait(r, "congressman", "feed", FEED)
    /\ \E o \in Outcomes(FEED) :
          LET rq == Settled(req[r], FEED, o)
              rep == IF o.kind = "ok" THEN SelectRep_Enh(rq.loc.repInfo, o.body) ELSE Null
              found == [rq EXCEPT !.loc.rep = rep]
              cached == getCached(FundingKey_Enh(rep.name))
          IN  IF rep = Null
              THEN /\ req' = [req EXCEPT ![r] = Finish(Send(rq, 500, Fallback_Enh))]
                   /\ cache' = cache
              ELSE IF cached # Null
                   THEN ThenVotes_Enh(r, found, cached, cache)
                   ELSE /\ req' = [req EXCEPT ![r] = Await(found, "fecSearch", FEC_SEARCH)]
                        /\ cache' = cache
    /\ UNCHANGED <<frame, up, now>>

\* The FEC candidate search settled: a rejection is caught and nothing is cached;
\* without a candidate the default is cached; else the totals and schedule_b are
\* fetched together (Promise.all)
Congressman_Enh_FecSearch(r) ==
    /\ server = SrvEnh
    /\ AtAwait(r, "congressman", "fecSearch", FEC_SEARCH)
    /\ \E o \in Outcomes(FEC_SEARCH) :
          LET rq == Settled(req[r], FEC_SEARCH, o)
          IN  CASE o.kind = "rejected" ->
                     ThenVotes_Enh(r, rq, FundingLoading_Enh, cache)
                [] o.kind = "ok" /\ Len(o.body) > 0 ->
                     /\ req' = [req EXCEPT ![r] =
                                  [Issue(Issue(rq, FEC_TOTALS), FEC_SCHED_B)
                                     EXCEPT !.pc = "fecDetail"]]
                     /\ cache' = cache
                [] OTHER ->
                     ThenVotes_Enh(r, rq, FundingLoading_Enh,
                                   setCache(cache, FundingKey_Enh(rq.loc.rep.name),
                                            FundingLoading_Enh))
    /\ UNCHANGED <<frame, up, now>>

\* One of the two calls of Promise.all settled: a rejection rejects the whole and
\* is caught, the other call still in flight; the second answer resolves it
Congressman_Enh_FecDetail(r) ==
    /\ server = SrvEnh
    /\ up
    /\ req[r].route = "congressman"
    /\ req[r].pc = "fecDetail"
    /\ \E endpoint \in req[r].inflight : \E o \in Outcomes(endpoint) :
          LET rq == Settled(req[r], endpoint, o)
              got == IF endpoint = FEC_TOTALS
                     THEN [rq EXCEPT !.loc.totals = o]
                     ELSE [rq EXCEPT !.loc.sched = o]
          IN  IF o.kind = "rejected"
              THEN ThenVotes_Enh(r, rq, FundingLoading_Enh, cache)
              ELSE IF got.loc.totals # Null /\ got.loc.sched # Null
                   THEN LET fundingData ==
                                FundingFromDetail_Enh(got.loc.totals, got.loc.sched)
                        IN  ThenVotes_Enh(r, got, fundingData,
                                          setCache(cache, FundingKey_Enh(rq.loc.rep.name),
                                                   fundingData))
                   ELSE /\ req' = [req EXCEPT ![r] = got]
                        /\ cache' = cache
    /\ UNCHANGED <<frame, up, now>>

\* A call that Promise.all no longer awaits settles: nothing reads its answer
Congressman_Enh_Stray(r) ==
    /\ server = SrvEnh
    /\ up
    /\ req[r].route = "congressman"
    /\ req[r].pc # "fecDetail"
    /\ \E endpoint \in req[r].inflight \cap {FEC_TOTALS, FEC_SCHED_B} :
          \E o \in Outcomes(endpoint) :
              req' = [req EXCEPT ![r] = Settled(req[r], endpoint, o)]
    /\ UNCHANGED <<frame, up, now, cache>>

\* The ProPublica recent votes settled: the response is sent
Congressman_Enh_Votes(r) ==
    /\ server = SrvEnh
    /\ AtAwait(r, "congressman", "ppRecent", PP_RECENT)
    /\ \E o \in Outcomes(PP_RECENT) :
          LET rq == Settled(req[r], PP_RECENT, o)
              recentVotes == SubSeq(o.body, 1, Min(10, Len(o.body)))
              votes == CASE o.kind = "rejected" -> <<>>
                         [] o.kind = "notok" -> SampleVotes_Enh
                         [] o.kind = "ok" -> recentVotes
          IN  /\ cache' = IF o.kind = "ok"
                          THEN setCache(cache, VotesKey_Enh(rq.loc.rep.name), recentVotes)
                          ELSE cache
              /\ req' = [req EXCEPT ![r] =
                           Finish(Send(rq, 200,
                                       ResponseData_Enh(rq.loc.repInfo, rq.loc.rep,
                                                        rq.loc.funding, votes)))]
    /\ UNCHANGED <<frame, up, now>>

\* The queries searched for: a state code
Queries == { "CA" }

\* server.js:1894-1899: /api/search awaits the legislators feed
Search_Enh_Start(r) ==
    /\ server = SrvEnh
    /\ MayArriveAlone(r)
    /\ \E query \in Queries :
          req' = [req EXCEPT ![r] = Await(Arrive("search", query), "feed", FEED)]
    /\ UNCHANGED <<frame, up, now, cache>>

\* server.js:1899-1920: the feed settled.  There is no ok check: the body of an
\* error response is not a JSON array, reading or filtering it throws, and the
\* catch block answers 500.  The names tried do not contain the query, so a
\* legislator matches by state
Search_Enh_Feed(r) ==
    /\ server = SrvEnh
    /\ AtAwait(r, "search", "feed", FEED)
    /\ \E o \in Outcomes(FEED) :
          LET rq == Settled(req[r], FEED, o)
              matches == Filter(o.body, LAMBDA l : l.state = rq.arg)
              results == [i \in 1..Min(10, Len(matches)) |->
                            [name |-> matches[i].name, state |-> matches[i].state]]
          IN  req' = [req EXCEPT ![r] =
                        IF o.kind = "ok"
                        THEN Finish(Send(rq, 200, [results |-> results]))
                        ELSE Finish(Send(rq, 500, [error |-> "Search failed"]))]
    /\ UNCHANGED <<frame, up, now, cache>>

(***************************************************************************)
(* server.js:15  GET /api/representatives?address=                         *)
(***************************************************************************)

\* An address: the state abbreviation that ends it ("null" without one) and the
\* five-digit ZIP code in it (empty without one)
Address(state, zip) == [state |-> state, zip |-> zip]

\* The addresses requested
Addresses == { Address("CA", <<9,4,9,0,3>>) }

\* server.js:295-299 getStateFromAddress: the state that ends the address, else CA
getStateFromAddress(address) == IF address.state # NullStr THEN address.state ELSE "CA"

\* An entry of the representatives list
Entry(name, type, state) == [name |-> name, type |-> type, state |-> state]

\* server.js:58-90: the officials of one office, in the order of its indices
RECURSIVE OfficialsOf_Addr(_, _, _, _)
OfficialsOf_Addr(office, officials, address, i) ==
    IF i > Len(office.officialIndices) THEN <<>>
    ELSE << Entry(officials[office.officialIndices[i] + 1].name,
                  IF IncludesWords(office.name, <<"House">>)
                  THEN "Representative" ELSE "Senator",
                  getStateFromAddress(address)) >>
         \o OfficialsOf_Addr(office, officials, address, i + 1)

\* server.js:57-91: the officials of the offices named United States Senate or
\* United States House, office by office
RECURSIVE CivicReps_Addr(_, _, _)
CivicReps_Addr(data, address, i) ==
    IF i > Len(data.offices) THEN <<>>
    ELSE LET office == data.offices[i]
         IN  (IF \/ IncludesWords(office.name, <<"United", "States", "Senate">>)
                 \/ IncludesWords(office.name, <<"United", "States", "House">>)
              THEN OfficialsOf_Addr(office, data.officials, address, 1)
              ELSE <<>>)
             \o CivicReps_Addr(data, address, i + 1)

\* server.js:173-183: the districts a California ZIP prefix makes likely
LikelyDistricts(zipPrefix) ==
    CASE zipPrefix = <<9, 4>> -> <<2, 4, 5, 7, 10, 11, 12, 13, 14, 15, 17, 18>>
      [] zipPrefix \in { <<9, 0>>, <<9, 1>> } ->
             <<25, 26, 27, 28, 29, 30, 31, 32, 33, 34, 35, 36, 37, 38, 39, 40, 43, 44,
               45, 46, 47>>
      [] zipPrefix = <<9, 2>> -> <<48, 49, 50, 51, 52>>
      [] OTHER -> <<>>

\* server.js:137-242: the House member shown for the address, if any
HouseRep_Addr(address, state, houseReps) ==
    IF Len(houseReps) = 0 THEN Null
    ELSE IF state = "CA" /\ address.zip = <<9, 4, 9, 0, 3>>
    THEN LET marinReps == Filter(houseReps, LAMBDA l : l.district \in {2, 4})
         IN  IF Len(marinReps) > 0
             THEN OrElse(Find(marinReps, LAMBDA l : l.district = 2), First(marinReps))
             ELSE Null
    ELSE IF state = "CA"
    THEN IF Len(address.zip) = 5
         THEN LET likelyDistricts == LikelyDistricts(substring(address.zip, 0, 2))
              IN  OrElse(Find(houseReps, LAMBDA l : Includes(likelyDistricts, l.district)),
                         First(houseReps))
         ELSE Null
    ELSE First(houseReps)

\* server.js:108-243: the senators of the address's state, then its House member
FeedReps_Addr(address, legislators) ==
    LET state == getStateFromAddress(address)
        stateReps == Filter(legislators, LAMBDA l : l.state = state)
        senators == Filter(stateReps, LAMBDA l : l.type = "sen")
        house == HouseRep_Addr(address, state,
                               Filter(stateReps, LAMBDA l : l.type = "rep"))
    IN  [i \in 1..Len(senators) |-> Entry(senators[i].name, "Senator", senators[i].state)]
        \o (IF house = Null THEN <<>>
            ELSE << Entry(house.name, "Representative", house.state) >>)

\* server.js:248-258: the entry pushed when the feed fetch throws
Unavailable_Addr(address) ==
    Entry("Representatives Unavailable", "Error", getStateFromAddress(address))

\* server.js:265-275: the entry pushed when nothing was found
UnableToLoad_Addr(address) ==
    Entry("Unable to load representatives", "Error", getStateFromAddress(address))

\* part_001:111-144: the senators of the address's state, then one entry that
\* stands for its House member if the feed lists any
FeedReps_p1Addr(address, legislators) ==
    LET state == getStateFromAddress(address)
        stateReps == Filter(legislators, LAMBDA l : l.state = state)
        senators == Filter(stateReps, LAMBDA l : l.type = "sen")
    IN  [i \in 1..Len(senators) |-> Entry(senators[i].name, "Senator", senators[i].state)]
        \o (IF \E i \in 1..Len(stateReps) : stateReps[i].type = "rep"
            THEN << Entry("House Representative", "Representative", state) >>
            ELSE <<>>)

\* The versions with getRepresentativesByAddress
ByAddress == { SrvAddr, P1Addr }

\* The locals of getRepresentativesByAddress: what the Civic step and the feed
\* step pushed to `representatives`, and whether the catch block of the feed
\* fetch ran
Steps(civic, feed, caught) == [civic |-> civic, feed |-> feed, caught |-> caught]

CacheKey_Addr(address) == <<"reps-", address>>

\* A return that caches and sends the list as it was found, empty or not
Respond_Addr_AsFound(r, rq, found) ==
    /\ cache' = MapSet(cache, CacheKey_Addr(rq.arg), [data |-> found, timestamp |-> now])
    /\ req' = [req EXCEPT ![r] = Finish(Send(rq, 200, [representatives |-> found]))]

\* A return that adds the placeholder entry whatever was found
Respond_Addr_Placeholder(r, rq, found) ==
    LET representatives == found \o << UnableToLoad_Addr(rq.arg) >>
    IN  /\ cache' = MapSet(cache, CacheKey_Addr(rq.arg),
                           [data |-> representatives, timestamp |-> now])
        /\ req' = [req EXCEPT ![r] =
                     Finish(Send(rq, 200, [representatives |-> representatives]))]

\* server.js:262-286 and 320, part_001:147-171 and 204: an empty list gets the
\* placeholder entry, the list is cached under the address and sent
Respond_Addr(r, rq, found) ==
    LET representatives == IF Len(found) = 0 THEN << UnableToLoad_Addr(rq.arg) >> ELSE found
    IN  /\ cache' = MapSet(cache, CacheKey_Addr(rq.arg),
                           [data |-> representatives, timestamp |-> now])
        /\ req' = [req EXCEPT ![r] =
                     Finish(Send(rq, 200, [representatives |-> representatives]))]

\* A route that fetches the feed for a request without an address
Representatives_Addr_NoAddress_Fetched(r) ==
    /\ server \in ByAddress
    /\ MayArrive(r)
    /\ req' = [req EXCEPT ![r] = Await(Arrive("representatives", Null), "noAddress", FEED)]
    /\ UNCHANGED <<frame, up, now, cache>>

\* server.js:308-316, part_001:193-200: without an address the route answers 400
Representatives_Addr_NoAddress(r) ==
    /\ server \in ByAddress
    /\ MayArrive(r)
    /\ req' = [req EXCEPT ![r] =
                 Finish(Send(Arrive("representatives", Null), 400,
                             [error |-> "Address parameter is required"]))]
    /\ UNCHANGED <<frame, up, now, cache>>

\* server.js:37-52, 97-100, part_001:38-52, 96-99: a fresh cache entry is served;
\* else the Civic call is awaited if its key is set, else the feed
Representatives_Addr_Start(r) ==
    /\ server \in ByAddress
    /\ MayArrive(r)
    /\ \E address \in Addresses :
          LET arrived == Arrive("representatives", address)
              rq == IF Fresh(cache, CacheKey_Addr(address), CACHE_DURATION)
                    THEN arrived
                    ELSE [arrived EXCEPT !.loc = Steps(<<>>, <<>>, FALSE)]
              cacheKey == CacheKey_Addr(address)
          IN  req' = [req EXCEPT ![r] =
                        IF Fresh(cache, cacheKey, CACHE_DURATION)
                        THEN Finish(Send(rq, 200,
                                         [representatives |-> cache[cacheKey].data]))
                        ELSE IF GOOGLE_CIVIC_API_KEY \in env
                             THEN Await(rq, "civic", CIVIC)
                             ELSE Await(rq, "feed", FEED)]
    /\ UNCHANGED <<frame, up, now, cache>>

\* server.js:52-100, 288-291, 321-327, part_001:52-99, 173-176, 205-211: the
\* Civic call settled.  A rejection is rethrown by the outer catch and the route
\* answers 500
Representatives_Addr_Civic(r) ==
    /\ server \in ByAddress
    /\ AtAwait(r, "representatives", "civic", CIVIC)
    /\ \E o \in Outcomes(CIVIC) :
          LET representatives == IF o.kind = "ok"
                                 THEN CivicReps_Addr(o.body, req[r].arg, 1)
                                 ELSE <<>>
              rq == [Settled(req[r], CIVIC, o) EXCEPT !.loc = Steps(representatives, <<>>, FALSE)]
          IN  CASE o.kind = "rejected" ->
                     /\ req' = [req EXCEPT ![r] =
                                  Finish(Send(rq, 500,
                                              [error |-> "Unable to fetch representatives"]))]
                     /\ cache' = cache
                [] Len(representatives) > 0 -> Respond_Addr(r, rq, representatives)
                [] OTHER ->
                     /\ req' = [req EXCEPT ![r] = Await(rq, "feed", FEED)]
                     /\ cache' = cache
    /\ UNCHANGED <<frame, up, now>>

\* A feed step whose rejection is rethrown in server.js as well
Representatives_Addr_Feed_Rethrown(r) ==
    /\ server \in ByAddress
    /\ AtAwait(r, "representatives", "feed", FEED)
    /\ \E o \in Outcomes(FEED) :
          LET address == req[r].arg
              representatives ==
                  CASE o.kind # "ok" -> <<>>
                    [] server = SrvAddr -> FeedReps_Addr(address, o.body)
                    [] OTHER -> FeedReps_p1Addr(address, o.body)
              settled == Settled(req[r], FEED, o)
              rq == [settled EXCEPT !.loc = Steps(settled.loc.civic, representatives,
                                                  o.kind = "rejected")]
          IN  IF o.kind = "rejected"
              THEN /\ req' = [req EXCEPT ![r] =
                                Finish(Send(rq, 500,
                                            [error |-> "Unable to fetch representatives"]))]
                   /\ cache' = cache
              ELSE Respond_Addr(r, rq, representatives)
    /\ UNCHANGED <<frame, up, now>>

\* A feed step that caches the placeholder entry before its rejection is rethrown
Representatives_Addr_Feed_CachedError(r) ==
    /\ server \in ByAddress
    /\ AtAwait(r, "representatives", "feed", FEED)
    /\ \E o \in Outcomes(FEED) :
          LET address == req[r].arg
              representatives ==
                  CASE o.kind = "rejected" -> << Unavailable_Addr(address) >>
                    [] o.kind = "notok" -> <<>>
                    [] server = SrvAddr -> FeedReps_Addr(address, o.body)
                    [] OTHER -> FeedReps_p1Addr(address, o.body)
              settled == Settled(req[r], FEED, o)
              rq == [settled EXCEPT !.loc = Steps(settled.loc.civic, representatives,
                                                  o.kind = "rejected")]
          IN  IF server = P1Addr /\ o.kind = "rejected"
              THEN /\ req' = [req EXCEPT ![r] =
                                Finish(Send(settled, 500,
                                            [error |-> "Unable to fetch representatives"]))]
                   /\ cache' = MapSet(cache, CacheKey_Addr(address),
                                      [data |-> representatives, timestamp |-> now])
              ELSE Respond_Addr(r, rq, representatives)
    /\ UNCHANGED <<frame, up, now>>

\* server.js:100-286: the feed settled.  In server.js a rejection is caught by the
\* inner catch, which pushes the placeholder entry, and the list is cached in
\* every case.  part_001:99-176, 205-211 has no inner catch: a rejection is
\* rethrown by the outer catch and the route answers 500, with nothing cached
Representatives_Addr_Feed(r) ==
    /\ server \in ByAddress
    /\ AtAwait(r, "representatives", "feed", FEED)
    /\ \E o \in Outcomes(FEED) :
          LET address == req[r].arg
              representatives ==
                  CASE o.kind = "rejected" -> << Unavailable_Addr(address) >>
                    [] o.kind = "notok" -> <<>>
                    [] server = SrvAddr -> FeedReps_Addr(address, o.body)
                    [] OTHER -> FeedReps_p1Addr(address, o.body)
              settled == Settled(req[r], FEED, o)
              rq == [settled EXCEPT !.loc = Steps(settled.loc.civic, representatives,
                                                  o.kind = "rejected")]
          IN  IF server = P1Addr /\ o.kind = "rejected"
              THEN /\ req' = [req EXCEPT ![r] =
                                Finish(Send(settled, 500,
                                            [error |-> "Unable to fetch representatives"]))]
                   /\ cache' = cache
              ELSE Respond_Addr(r, rq, representatives)
    /\ UNCHANGED <<frame, up, now>>

(***************************************************************************)
(* server.js:15  GET /api/voting-record, /api/campaign-finance and         *)
(* /api/transcripts                                                        *)
(***************************************************************************)

\* server.js:453-476: the topic of a vote, the first rule that matches the words
\* of its question and of its bill title
Topic(vote) ==
    LET q(word) == word \in vote.question
        t(word) == word \in vote.billTitle
    IN  CASE q("defense") \/ t("defense") \/ t("military") -> "Defense & Military"
          [] q("health") \/ t("health") \/ t("medicare") -> "Healthcare"
          [] q("tax") \/ t("tax") \/ q("budget") -> "Budget & Taxes"
          [] q("environment") \/ t("climate") \/ t("energy") -> "Environment & Energy"
          [] q("education") \/ t("education") \/ t("student") -> "Education"
          [] q("immigration") \/ t("immigration") \/ t("border") -> "Immigration"
          [] q("infrastructure") \/ t("infrastructure") \/ t("transportation") ->
                 "Infrastructure"
          [] q("nomination") -> "Nominations"
          [] q("procedure") \/ q("motion") \/ q("cloture") -> "Procedural Votes"
          [] OTHER -> "Other Votes"

\* getVotingRecord grouping every vote of the answer
GroupVotes_NoLimit(votes) ==
    [grouped |-> [topic \in { Topic(votes[i]) : i \in 1..Len(votes) } |->
                     SelectSeq(votes, LAMBDA v : Topic(v) = topic)],
     raw |-> votes]

\* server.js:449-498: the first 50 votes grouped by topic, and the votes as received
GroupVotes(votes) ==
    LET first50 == SubSeq(votes, 1, Min(50, Len(votes)))
    IN  [grouped |-> [topic \in { Topic(first50[i]) : i \in 1..Len(first50) } |->
                         SelectSeq(first50, LAMBDA v : Topic(v) = topic)],
         raw |-> votes]

\* server.js:502-515: the link returned without a ProPublica answer
VotingFallback_Addr ==
    [grouped |-> [topic \in {"Voting Record"} |-> << "ProPublica API key required" >>],
     raw |-> <<>>]

\* server.js:516-519: what the catch block returns
VotingError_Addr == [grouped |-> [topic \in {} |-> <<>>], raw |-> <<>>]

\* The identifiers in the route parameters
Identifiers == { "B000001" }

\* server.js:702-708, 433-441: getVotingRecord calls ProPublica if its key is set
VotingRecord_Addr_Start(r) ==
    /\ server = SrvAddr
    /\ MayArriveAlone(r)
    /\ \E bioguideId \in Identifiers :
          LET rq == Arrive("voting-record", bioguideId)
          IN  req' = [req EXCEPT ![r] =
                        IF PROPUBLICA_API_KEY \in env
                        THEN Await(rq, "ppVotes", PP_VOTES)
                        ELSE Finish(Send(rq, 200, VotingFallback_Addr))]
    /\ UNCHANGED <<frame, up, now, cache>>

\* server.js:440-520: the member's votes settled
VotingRecord_Addr_Votes(r) ==
    /\ server = SrvAddr
    /\ AtAwait(r, "voting-record", "ppVotes", PP_VOTES)
    /\ \E o \in Outcomes(PP_VOTES) :
          LET rq == Settled(req[r], PP_VOTES, o)
              votingData == CASE o.kind = "rejected" -> VotingError_Addr
                              [] o.kind = "ok" /\ o.body.hasVotes -> GroupVotes(o.body.votes)
                              [] OTHER -> VotingFallback_Addr
          IN  req' = [req EXCEPT ![r] = Finish(Send(rq, 200, votingData))]
    /\ UNCHANGED <<frame, up, now, cache>>

\* server.js:597-608, 670-679: no candidate, or no totals
FinanceNotAvailable == [summary |-> [totalRaised |-> Text("Data not available")],
                        topContributors |-> <<>>]

\* server.js:686-698: what the catch block returns
FinanceUnavailable == [summary |-> [totalRaised |-> Text("Data temporarily unavailable")],
                       topContributors |-> <<>>]

\* server.js:640-668: the summary of the totals with the contributors
FinanceSummary(finances, topContributors) ==
    [summary |-> [totalRaised |-> Dollars(finances.receipts)],
     topContributors |-> topContributors]

\* server.js:712-722, 578-589: with no FEC id the candidate is searched by name
CampaignFinance_Addr_Start(r) ==
    /\ server = SrvAddr
    /\ MayArriveAlone(r)
    /\ \E identifier \in Identifiers :
          req' = [req EXCEPT ![r] =
                    Await(Arrive("campaign-finance", identifier), "fecSearch", FEC_SEARCH)]
    /\ UNCHANGED <<frame, up, now, cache>>

\* server.js:589-614: the candidate search settled
CampaignFinance_Addr_FecSearch(r) ==
    /\ server = SrvAddr
    /\ AtAwait(r, "campaign-finance", "fecSearch", FEC_SEARCH)
    /\ \E o \in Outcomes(FEC_SEARCH) :
          LET rq == Settled(req[r], FEC_SEARCH, o)
          IN  req' = [req EXCEPT ![r] =
                        CASE o.kind = "rejected" -> Finish(Send(rq, 200, FinanceUnavailable))
                          [] o.kind = "ok" /\ Len(o.body) > 0 ->
                                 Await(rq, "fecTotals", FEC_TOTALS)
                          [] OTHER -> Finish(Send(rq, 200, FinanceNotAvailable))]
    /\ UNCHANGED <<frame, up, now, cache>>

\* server.js:614-627: the totals settled; a response that is not ok throws
CampaignFinance_Addr_FecTotals(r) ==
    /\ server = SrvAddr
    /\ AtAwait(r, "campaign-finance", "fecTotals", FEC_TOTALS)
    /\ \E o \in Outcomes(FEC_TOTALS) :
          LET rq == Settled(req[r], FEC_TOTALS, o)
          IN  req' = [req EXCEPT ![r] =
                        CASE o.kind # "ok" -> Finish(Send(rq, 200, FinanceUnavailable))
                          [] Len(o.body) > 0 ->
                                 Await([rq EXCEPT !.loc = [finances |-> o.body[1]]],
                                       "fecSchedA", FEC_SCHED_A)
                          [] OTHER -> Finish(Send(rq, 200, FinanceNotAvailable))]
    /\ UNCHANGED <<frame, up, now, cache>>

\* server.js:627-668: the contributors by size settled
CampaignFinance_Addr_SchedA(r) ==
    /\ server = SrvAddr
    /\ AtAwait(r, "campaign-finance", "fecSchedA", FEC_SCHED_A)
    /\ \E o \in Outcomes(FEC_SCHED_A) :
          LET rq == Settled(req[r], FEC_SCHED_A, o)
          IN  req' = [req EXCEPT ![r] =
                        Finish(Send(rq, 200,
                                    CASE o.kind = "rejected" -> FinanceUnavailable
                                      [] o.kind = "notok" ->
                                             FinanceSummary(rq.loc.finances, <<>>)
                                      [] o.kind = "ok" ->
                                             FinanceSummary(rq.loc.finances, o.body)))]
    /\ UNCHANGED <<frame, up, now, cache>>

\* server.js:379-412: the search tools that end every transcripts list; the mock
\* legislator has an id and no website
TranscriptTools == << "Search Congressional Record", "Committee Hearing Transcripts",
                      "C-SPAN Video Archive" >>

\* server.js:726-736, 331-349: getTranscripts calls ProPublica if its key is set
Transcripts_Addr_Start(r) ==
    /\ server = SrvAddr
    /\ MayArriveAlone(r)
    /\ \E bioguideId \in Identifiers :
          LET rq == Arrive("transcripts", bioguideId)
          IN  req' = [req EXCEPT ![r] =
                        IF PROPUBLICA_API_KEY \in env
                        THEN Await(rq, "ppStatements", PP_STATEMENTS)
                        ELSE Finish(Send(rq, 200, [transcripts |-> TranscriptTools]))]
    /\ UNCHANGED <<frame, up, now, cache>>

\* server.js:349-430: the statements settled; a failure leaves the tools alone
Transcripts_Addr_Statements(r) ==
    /\ server = SrvAddr
    /\ AtAwait(r, "transcripts", "ppStatements", PP_STATEMENTS)
    /\ \E o \in Outcomes(PP_STATEMENTS) :
          LET rq == Settled(req[r], PP_STATEMENTS, o)
              statements == IF o.kind = "ok"
                            THEN SubSeq(o.body, 1, Min(10, Len(o.body)))
                            ELSE <<>>
          IN  req' = [req EXCEPT ![r] =
                        Finish(Send(rq, 200,
                                    [transcripts |-> statements \o TranscriptTools]))]
    /\ UNCHANGED <<frame, up, now, cache>>

(***************************************************************************)
(* server.js:1104 and part_001:353  GET /api/representatives (Civic only)  *)
(***************************************************************************)

\* How the Civic call settles where the handler reads the text of the response
\* and parses it: the text is JSON or not
CivicTextOutcomes ==
    { Rejected,
      [kind |-> "notok", json |-> TRUE], [kind |-> "notok", json |-> FALSE],
      [kind |-> "ok", json |-> FALSE] }
    \cup { [kind |-> "ok", json |-> TRUE, body |-> b] : b \in CivicAnswers }

\* The comparator with the senators last
SenatorsLast(a, b) ==
    IF a.office = "Senator" /\ b.office # "Senator" THEN 1
    ELSE IF a.office # "Senator" /\ b.office = "Senator" THEN -1
    ELSE 0

\* server.js:1262-1266, part_001:480-484: the comparator of representatives.sort
SenatorsFirst(a, b) ==
    IF a.office = "Senator" /\ b.office # "Senator" THEN -1
    ELSE IF a.office # "Senator" /\ b.office = "Senator" THEN 1
    ELSE 0

\* x inserted behind the last element that does not sort after it
InsertSorted(sorted, x, Cmp(_, _)) ==
    LET k == CHOOSE j \in 0..Len(sorted) :
                 /\ \A i \in (j + 1)..Len(sorted) : Cmp(sorted[i], x) > 0
                 /\ j = 0 \/ Cmp(sorted[j], x) <= 0
    IN  SubSeq(sorted, 1, k) \o << x >> \o SubSeq(sorted, k + 1, Len(sorted))

\* Array.prototype.sort(compareFn): the sort of node 18 and later is stable, and
\* sorts a short array by insertion
Sort(arr, Cmp(_, _)) ==
    LET sortFirst[n \in 0..Len(arr)] ==
            IF n = 0 THEN <<>>
            ELSE InsertSorted(sortFirst[n - 1], arr[n], Cmp)
    IN  sortFirst[Len(arr)]

\* The office is federal: its lowercased name has 'representative' or 'senator',
\* and 'united states' or 'u.s.'
IsFederal(office) ==
    LET officeName == toLowerCase(office.name)
    IN  /\ \/ IncludesWords(officeName, <<"representative">>)
           \/ IncludesWords(officeName, <<"senator">>)
        /\ \/ IncludesWords(officeName, <<"united", "states">>)
           \/ IncludesWords(officeName, <<"u.s.">>)

\* server.js:1239: office.name.includes('Senator') ? 'Senator' : 'Representative'
OfficeOf_Civic(office) ==
    IF IncludesWords(office.name, <<"Senator">>) THEN "Senator" ELSE "Representative"

\* part_001:458: officeName.includes('senator') ? 'Senator' : 'Representative'
OfficeOf_p1(office) ==
    IF IncludesWords(toLowerCase(office.name), <<"senator">>)
    THEN "Senator" ELSE "Representative"

\* The officials of one office, in the order of its indices
RECURSIVE OfficialsOf_Civic(_, _, _, _)
OfficialsOf_Civic(office, officials, officeOf, i) ==
    IF i > Len(office.officialIndices) THEN <<>>
    ELSE << [name |-> officials[office.officialIndices[i] + 1].name,
             office |-> officeOf] >>
         \o OfficialsOf_Civic(office, officials, officeOf, i + 1)

\* server.js:1213-1258, part_001:433-477: the officials of the federal offices,
\* office by office, as they are pushed
RECURSIVE Collected(_, _, _)
Collected(version, civicData, i) ==
    IF i > Len(civicData.offices) THEN <<>>
    ELSE LET office == civicData.offices[i]
         IN  (IF IsFederal(office)
              THEN OfficialsOf_Civic(office, civicData.officials,
                                     IF version = SrvCivic THEN OfficeOf_Civic(office)
                                     ELSE OfficeOf_p1(office), 1)
              ELSE <<>>)
             \o Collected(version, civicData, i + 1)

\* server.js:1169-1173, part_001:407-411: the answer without the Civic key
MissingKey_Civic ==
    [error |-> TRUE, message |-> "Google Civic API key not configured",
     representatives |-> <<>>]

\* server.js:1192-1205, part_001:425-429: the answer to a Civic error response
CivicError_Civic ==
    [error |-> TRUE, message |-> "Google Civic API Error", representatives |-> <<>>]

\* server.js:1279-1283, part_001:495-499: what the catch block answers
SystemError_Civic == [error |-> TRUE, message |-> "System error", representatives |-> <<>>]

\* server.js:1154-1159, part_001:395-400, part_003:11-15: without an address the
\* route answers 400
Representatives_Civic_NoAddress(r) ==
    /\ server \in {SrvCivic, P1Civic, P3State}
    /\ MayArriveAlone(r)
    /\ req' = [req EXCEPT ![r] =
                 Finish(Send(Arrive("representatives", Null), 400,
                             [error |-> TRUE, message |-> "Address is required"]))]
    /\ UNCHANGED <<frame, up, now, cache>>

\* server.js:1165-1181, part_001:402-416: without the key the answer names it;
\* else the Civic call is awaited
Representatives_Civic_Start(r) ==
    /\ server \in {SrvCivic, P1Civic}
    /\ MayArriveAlone(r)
    /\ \E address \in Addresses :
          LET rq == Arrive("representatives", address)
          IN  req' = [req EXCEPT ![r] =
                        IF GOOGLE_CIVIC_API_KEY \in env
                        THEN Await(rq, "civic", CIVIC)
                        ELSE Finish(Send(rq, 200, MissingKey_Civic))]
    /\ UNCHANGED <<frame, up, now, cache>>

\* server.js:1181-1284, part_001:416-500: the Civic call settled.  part_001 parses
\* the text of an error response outside any inner try, so a text that is not
\* JSON takes it to the catch block.  The local `representatives` is kept as it
\* was collected, before the sort
Representatives_Civic_Civic(r) ==
    /\ server \in {SrvCivic, P1Civic}
    /\ AtAwait(r, "representatives", "civic", CIVIC)
    /\ \E o \in CivicTextOutcomes :
          LET settled == Settled(req[r], CIVIC, o)
              parsed == o.kind = "ok" /\ o.json
              representatives == IF parsed THEN Collected(server, o.body, 1) ELSE <<>>
              rq == IF parsed
                    THEN [settled EXCEPT !.loc = [representatives |-> representatives]]
                    ELSE settled
              body == CASE o.kind = "rejected" -> SystemError_Civic
                        [] o.kind = "notok" ->
                               IF server = P1Civic /\ ~ o.json
                               THEN SystemError_Civic ELSE CivicError_Civic
                        [] o.kind = "ok" /\ ~ o.json -> SystemError_Civic
                        [] OTHER ->
                               [representatives |-> Sort(representatives, SenatorsFirst)]
          IN  req' = [req EXCEPT ![r] = Finish(Send(rq, 200, body))]
    /\ UNCHANGED <<frame, up, now, cache>>

(***************************************************************************)
(* server.js:1104, part_001:353 and part_003:1  GET /api/voting-record/:name *)
(* and GET /api/campaign-finance/:name                                     *)
(***************************************************************************)

\* The versions with the routes by name
ByName == { SrvCivic, P1Civic, P3State }

\* server.js:1314-1319, part_001:530-535, part_003:121-126: the entry pushed when
\* no bill was listed
VotesPlaceholder(version) ==
    CASE version = SrvCivic ->
             [bill |-> "Voting record data requires Congress.gov API key", vote |-> "N/A"]
      [] version = P1Civic ->
             [bill |-> "Voting records require Congress.gov API key", vote |-> "N/A"]
      [] version = P3State ->
             [bill |-> "H.R. 1234 - Infrastructure Investment Act", vote |-> "Yes"]

\* server.js:1301-1309: the entries pushed for the bills listed
BillVotes(body) ==
    IF body.hasBills
    THEN [i \in 1..Len(body.bills) |-> [bill |-> body.bills[i], vote |-> "See Details"]]
    ELSE <<>>

\* server.js:1313-1322: an empty list gets the placeholder entry and is sent
VotesOrPlaceholder(version, votes) ==
    [votes |-> IF Len(votes) = 0 THEN << VotesPlaceholder(version) >> ELSE votes]

\* A start that calls Congress.gov whether or not its key is set
VotingRecord_Name_Start_Keyless(r) ==
    /\ server \in ByName
    /\ MayArriveAlone(r)
    /\ \E name \in Identifiers :
          req' = [req EXCEPT ![r] = Await(Arrive("voting-record", name), "bills", BILLS)]
    /\ UNCHANGED <<frame, up, now, cache>>

\* server.js:1288-1296, part_001:506-513, part_003:97-104: with CONGRESS_API_KEY
\* the bills are fetched; without it the list stays empty and gets the placeholder
VotingRecord_Name_Start(r) ==
    /\ server \in ByName
    /\ MayArriveAlone(r)
    /\ \E name \in Identifiers :
          LET rq == Arrive("voting-record", name)
          IN  req' = [req EXCEPT ![r] =
                        IF CONGRESS_API_KEY \in env
                        THEN Await(rq, "bills", BILLS)
                        ELSE Finish(Send(rq, 200, VotesOrPlaceholder(server, <<>>)))]
    /\ UNCHANGED <<frame, up, now, cache>>

\* A settling of the bills call whose catch block also sends the placeholder
VotingRecord_Name_Bills_Placeholder(r) ==
    /\ server \in ByName
    /\ AtAwait(r, "voting-record", "bills", BILLS)
    /\ \E o \in Outcomes(BILLS) :
          LET settled == Settled(req[r], BILLS, o)
              rq == [settled EXCEPT !.loc = [caught |-> o.kind = "rejected"]]
              votes == IF o.kind = "ok" THEN BillVotes(o.body) ELSE <<>>
          IN  req' = [req EXCEPT ![r] =
                        Finish(Send(rq, 200, VotesOrPlaceholder(server, votes)))]
    /\ UNCHANGED <<frame, up, now, cache>>

\* server.js:1296-1327, part_001:513-541, part_003:104-132: the bills call
\* settled.  A rejected fetch takes the handler to its catch block, which sends an
\* empty list; a response that is not ok leaves the list empty for the placeholder
VotingRecord_Name_Bills(r) ==
    /\ server \in ByName
    /\ AtAwait(r, "voting-record", "bills", BILLS)
    /\ \E o \in Outcomes(BILLS) :
          LET settled == Settled(req[r], BILLS, o)
              rq == [settled EXCEPT !.loc = [caught |-> o.kind = "rejected"]]
              votes == IF o.kind = "ok" THEN BillVotes(o.body) ELSE <<>>
          IN  req' = [req EXCEPT ![r] =
                        Finish(Send(rq, 200,
                                    IF o.kind = "rejected" THEN [votes |-> <<>>]
                                    ELSE VotesOrPlaceholder(server, votes)))]
    /\ UNCHANGED <<frame, up, now, cache>>

\* server.js:1334-1339, part_001:547-552, part_003:138-143: let fundingData
FundingNA == [totalRaised |-> Text("N/A"), sources |-> <<>>]

\* server.js:1359-1393: fundingData rebuilt from the first result of the totals;
\* the totals tried name no contribution, so no source passes the filter
FundingFromFinances(finances) ==
    [totalRaised |-> Dollars(finances.receipts), sources |-> <<>>]

\* server.js:1331-1344, 1400: with FEC_API_KEY the candidate is searched; without
\* it the default fundingData is sent
CampaignFinance_Name_Start(r) ==
    /\ server \in ByName
    /\ MayArriveAlone(r)
    /\ \E name \in Identifiers :
          LET rq == Arrive("campaign-finance", name)
          IN  req' = [req EXCEPT ![r] =
                        IF FEC_API_KEY \in env
                        THEN Await(rq, "fecSearch", FEC_SEARCH)
                        ELSE Finish(Send(rq, 200, FundingNA))]
    /\ UNCHANGED <<frame, up, now, cache>>

\* server.js:1344-1353, 1400-1405: the candidate search settled
CampaignFinance_Name_FecSearch(r) ==
    /\ server \in ByName
    /\ AtAwait(r, "campaign-finance", "fecSearch", FEC_SEARCH)
    /\ \E o \in Outcomes(FEC_SEARCH) :
          LET rq == Settled(req[r], FEC_SEARCH, o)
          IN  req' = [req EXCEPT ![r] =
                        IF o.kind = "ok" /\ Len(o.body) > 0
                        THEN Await(rq, "fecTotals", FEC_TOTALS)
                        ELSE Finish(Send(rq, 200, FundingNA))]
    /\ UNCHANGED <<frame, up, now, cache>>

\* server.js:1353-1405: the totals settled
CampaignFinance_Name_FecTotals(r) ==
    /\ server \in ByName
    /\ AtAwait(r, "campaign-finance", "fecTotals", FEC_TOTALS)
    /\ \E o \in Outcomes(FEC_TOTALS) :
          LET rq == Settled(req[r], FEC_TOTALS, o)
          IN  req' = [req EXCEPT ![r] =
                        Finish(Send(rq, 200,
                                    IF o.kind = "ok" /\ Len(o.body) > 0
                                    THEN FundingFromFinances(o.body[1])
                                    ELSE FundingNA))]
    /\ UNCHANGED <<frame, up, now, cache>>

(***************************************************************************)
(* part_003:1  GET /api/representatives?address=                           *)
(***************************************************************************)

\* The addresses requested: one that names its state and one that names none
Addresses_p3 == Addresses \cup { Address(NullStr, <<>>) }

\* part_003:24-30: the answer to an address without a state abbreviation
NoState_p3 ==
    [error |-> TRUE,
     message |-> "Please include state abbreviation in your address (e.g., CA, NY, TX)",
     representatives |-> <<>>]

\* part_003:86-93: what the catch block answers
Unable_p3 ==
    [error |-> TRUE, message |-> "Unable to fetch representative data",
     representatives |-> <<>>]

\* part_003:37-77: the first two senators of the state, then the first of its
\* House members
StateReps_p3(state, legislators) ==
    LET all == Filter(legislators, LAMBDA l : l.state = state /\ l.type = "sen")
        senators == SubSeq(all, 1, Min(2, Len(all)))
        rep == Find(legislators, LAMBDA l : l.state = state /\ l.type = "rep")
    IN  [i \in 1..Len(senators) |->
            [name |-> senators[i].name, office |-> "Senator", state |-> state]]
        \o (IF rep = Null THEN <<>>
            ELSE << [name |-> rep.name, office |-> "Representative", state |-> state] >>)

\* part_003:10-34: the state is read from the address; an address that names none
\* is answered at once, else the feed is fetched, with no key read
Representatives_p3_Start(r) ==
    /\ server = P3State
    /\ MayArriveAlone(r)
    /\ \E address \in Addresses_p3 :
          LET rq == Arrive("representatives", address)
          IN  req' = [req EXCEPT ![r] =
                        IF address.state = NullStr
                        THEN Finish(Send(rq, 200, NoState_p3))
                        ELSE Await(rq, "feed", FEED)]
    /\ UNCHANGED <<frame, up, now, cache>>

\* part_003:34-93: the feed settled.  response.ok is not tested: the body of a
\* response that is not ok is no list of legislators, and like a rejected fetch
\* it takes the handler to its catch block
Representatives_p3_Feed(r) ==
    /\ server = P3State
    /\ AtAwait(r, "representatives", "feed", FEED)
    /\ \E o \in Outcomes(FEED) :
          LET rq == Settled(req[r], FEED, o)
          IN  req' = [req EXCEPT ![r] =
                        Finish(Send(rq, 200,
                                    IF o.kind = "ok"
                                    THEN [representatives |->
                                             StateReps_p3(rq.arg.state, o.body)]
                                    ELSE Unable_p3))]
    /\ UNCHANGED <<frame, up, now, cache>>

(***************************************************************************)
(* part_001:17  GET /api/voting-record/:bioguideId and                     *)
(* GET /api/campaign-finance/:identifier                                   *)
(***************************************************************************)

\* part_001:220-240: the two sample votes the route answers with
SampleVotes_p1Addr ==
    [votes |-> << [bill |-> "H.R. 1234", position |-> "Yes"],
                  [bill |-> "S. 5678", position |-> "No"] >>]

\* part_001:216-241: the route calls nothing and sends the sample votes
VotingRecord_p1Addr(r) ==
    /\ server = P1Addr
    /\ MayArriveAlone(r)
    /\ \E bioguideId \in Identifiers :
          req' = [req EXCEPT ![r] =
                    Finish(Send(Arrive("voting-record", bioguideId), 200,
                                SampleVotes_p1Addr))]
    /\ UNCHANGED <<frame, up, now, cache>>

\* part_001:298-301, 305-308: the answer when no data was found, and of the catch
\* block
NoFinance_p1Addr == [summary |-> Null, sources |-> <<>>]

\* part_001:272-291: the answer built from the first result of the totals
Finance_p1Addr(finances) ==
    [summary |-> [totalRaised |-> Dollars(finances.receipts)],
     sources |-> << "Individual Contributions", "PAC Contributions" >>]

\* part_001:245-251: the candidate is searched, whatever the key
CampaignFinance_p1Addr_Start(r) ==
    /\ server = P1Addr
    /\ MayArriveAlone(r)
    /\ \E identifier \in Identifiers :
          req' = [req EXCEPT ![r] =
                    Await(Arrive("campaign-finance", identifier), "fecSearch", FEC_SEARCH)]
    /\ UNCHANGED <<frame, up, now, cache>>

\* part_001:251-264, 296-309: the candidate search settled.  A response that is not
\* ok throws into the catch block, as a rejected fetch does
CampaignFinance_p1Addr_FecSearch(r) ==
    /\ server = P1Addr
    /\ AtAwait(r, "campaign-finance", "fecSearch", FEC_SEARCH)
    /\ \E o \in Outcomes(FEC_SEARCH) :
          LET rq == Settled(req[r], FEC_SEARCH, o)
          IN  req' = [req EXCEPT ![r] =
                        IF o.kind = "ok" /\ Len(o.body) > 0
                        THEN Await(rq, "fecTotals", FEC_TOTALS)
                        ELSE Finish(Send(rq, 200, NoFinance_p1Addr))]
    /\ UNCHANGED <<frame, up, now, cache>>

\* part_001:264-309: the totals settled: the summary is sent and the handler
\* returns, or the answer without data is sent
CampaignFinance_p1Addr_FecTotals(r) ==
    /\ server = P1Addr
    /\ AtAwait(r, "campaign-finance", "fecTotals", FEC_TOTALS)
    /\ \E o \in Outcomes(FEC_TOTALS) :
          LET rq == Settled(req[r], FEC_TOTALS, o)
          IN  req' = [req EXCEPT ![r] =
                        Finish(Send(rq, 200,
                                    IF o.kind = "ok" /\ Len(o.body) > 0
                                    THEN Finance_p1Addr(o.body[1])
                                    ELSE NoFinance_p1Addr))]
    /\ UNCHANGED <<frame, up, now, cache>>

(***************************************************************************)
(* ZIP lookup development: every lookup applied to one zipcode             *)
(***************************************************************************)

Digits == 0..9

\* The last two digits of the five-digit ZIP codes tried (the first three are free)
ZipTails == { <<0,1>>, <<0,3>>, <<1,0>>, <<0,2>>, <<9,9>> }

\* Route parameters tried: one- and two-character strings and five-digit ZIP codes
ZipInputs ==
    { <<a>> : a \in Digits } \cup
    { <<a, b>> : a \in Digits, b \in Digits } \cup
    { <<a, b, c>> \o t : a \in Digits, b \in Digits, c \in Digits, t \in ZipTails }

NotLookedUp == [looked |-> FALSE]

\* No server runs during the ZIP lookup development
SrvIdle ==
    /\ server = "none"
    /\ env = {}
    /\ up = FALSE
    /\ now = 0
    /\ cache = << >>
    /\ req = [r \in Reqs |-> NoRequest]

\* No selection is made outside the selection development
SelIdle ==
    /\ selIn = << >>
    /\ selOut = [selected |-> FALSE]

\* No votes are grouped outside the grouping development
VotesIdle ==
    /\ votesIn = << >>
    /\ votesOut = [pending |-> TRUE]

ZipInit ==
    /\ zipIn \in ZipInputs
    /\ zipOut = NotLookedUp
    /\ SrvIdle
    /\ SelIdle
    /\ VotesIdle

LookupZip ==
    /\ zipOut = NotLookedUp
    /\ zipOut' = [looked |-> TRUE,
                  p1 |-> getStateFromZip_p1(zipIn),
                  p2 |-> getStateFromZip_p2(zipIn),
                  loc |-> getLocationFromZip(zipIn),
                  map |-> getRepFromMapping(zipIn)]
    /\ UNCHANGED <<zipIn, srvVars, selVars, votesVars>>

ZipNext == LookupZip

SpecZip == ZipInit /\ [][ZipNext]_vars

(***************************************************************************)
(* Selection development: the legislator each /api/congressman/:zipcode    *)
(* picks from the feed, as a function of the zipcode, the feed and, in     *)
(* server.js:1453, what getRepresentativeByZip learned                     *)
(***************************************************************************)

\* server.js:1480-1525: getRepresentativeByZip with nothing cached: the Civic
\* answer's first official if the key is set and the call finds one, null if the
\* call rejects, else the static mapping
getRepresentativeByZip(zipcode, keyed, o) ==
    IF ~ keyed THEN getRepFromMapping(zipcode)
    ELSE IF o.kind = "rejected" THEN Null
    ELSE IF o.kind = "ok" /\ Len(o.body.officials) > 0 THEN CivicResult_Enh(o.body)
    ELSE getRepFromMapping(zipcode)

\* ZIP codes selected for: Northern California with and without the 949 prefix,
\* Southern California, New York, and a prefix no table has
SelZips == { <<9,4,9,0,3>>, <<9,5,0,0,1>>, <<9,0,2,1,0>>, <<1,0,0,0,1>>, <<5,9,0,0,1>> }

\* The legislators the feeds are made of
SelPool ==
    { Leg("NY-12", "NY", "rep", 12), Leg("NY-sen", "NY", "sen", NoDistrict),
      Leg("CA-02", "CA", "rep", 2), Leg("CA-20", "CA", "rep", 20),
      Leg("CA-sen", "CA", "sen", NoDistrict) }

\* Longest feed selected from
MaxFeed == 3

\* The feeds: up to MaxFeed different legislators in any order
SelFeeds ==
    { f \in UNION { [1..n -> SelPool] : n \in 0..MaxFeed } :
        \A i \in 1..Len(f) : \A j \in 1..Len(f) : f[i] = f[j] => i = j }

NotSelected == [selected |-> FALSE]

SelInit ==
    /\ selIn \in [zipcode : SelZips, feed : SelFeeds, keyed : BOOLEAN, civic : Outcomes(CIVIC)]
    /\ selOut = NotSelected
    /\ zipIn = << >>
    /\ zipOut = NotLookedUp
    /\ SrvIdle
    /\ VotesIdle

\* Each version selects from the feed
SelectRep ==
    /\ selOut = NotSelected
    /\ LET repInfo == getRepresentativeByZip(selIn.zipcode, selIn.keyed, selIn.civic)
       IN  selOut' = [selected |-> TRUE,
                      region |-> SelectRep_Region(selIn.zipcode, selIn.feed),
                      p1 |-> SelectRep_p1(selIn.zipcode, selIn.feed),
                      p2 |-> SelectRep_p2(selIn.zipcode, selIn.feed),
                      repInfo |-> repInfo,
                      enh |-> SelectRep_Enh(repInfo, selIn.feed)]
    /\ UNCHANGED <<selIn, srvVars, zipVars, votesVars>>

SelNext == SelectRep

SpecSelect == SelInit /\ [][SelNext]_vars

(***************************************************************************)
(* Grouping development: getVotingRecord's grouping of the votes of a      *)
(* ProPublica answer, as a function of the votes                           *)
(***************************************************************************)

\* The votes the answers are made of: one of each topic, among them votes that
\* several rules match and two of one topic
VotePool ==
    << Vote({"motion"}, {}),
       Vote({"health"}, {"defense"}),
       Vote({}, {}),
       Vote({"tax", "nomination"}, {"energy"}),
       Vote({"budget"}, {"border"}),
       Vote({"nomination"}, {"student"}),
       Vote({"environment"}, {"transportation"}),
       Vote({"immigration", "cloture"}, {}),
       Vote({"procedure"}, {"infrastructure"}),
       Vote({"nomination"}, {}),
       Vote({"cloture"}, {"medicare"}) >>

\* Longest answer of which every sequence of votes is tried
MaxVotes == 2

\* The lengths around the 50 votes that slice(0, 50) keeps
LongAnswers == { 49, 50, 51, 60 }

\* An answer of n votes that walks the pool from a start by a stride
Walk(n, start, stride) ==
    [i \in 1..n |-> VotePool[((start + (i - 1) * stride) % Len(VotePool)) + 1]]

VoteAnswers ==
    UNION { [1..n -> { VotePool[i] : i \in 1..Len(VotePool) }] : n \in 0..MaxVotes } \cup
    { Walk(n, start, stride) :
        n \in LongAnswers, start \in 0..(Len(VotePool) - 1), stride \in { 1, 3 } }

NotGrouped == [pending |-> TRUE]

VotesInit ==
    /\ votesIn \in VoteAnswers
    /\ votesOut = NotGrouped
    /\ zipIn = << >>
    /\ zipOut = NotLookedUp
    /\ SrvIdle
    /\ SelIdle

\* server.js:449-498: getVotingRecord groups the votes of the answer
GroupAnswer ==
    /\ votesOut = NotGrouped
    /\ votesOut' = GroupVotes(votesIn)
    /\ UNCHANGED <<votesIn, srvVars, zipVars, selVars>>

VotesNext == GroupAnswer

SpecVotes == VotesInit /\ [][VotesNext]_vars

(***************************************************************************)
(* The servers: one version runs, requests arrive, calls settle, time      *)
(* passes                                                                  *)
(***************************************************************************)

Servers == { SrvAddr, SrvRegion, SrvCivic, SrvEnh, P1Addr, P1Civic, P1Zip, P2Cache, P3State }

\* The API keys a version reads from process.env
KeysRead(version) ==
    CASE version = SrvRegion -> {}
      [] version = P1Zip -> {}
      [] version = P2Cache -> {}
      [] version = SrvAddr -> { GOOGLE_CIVIC_API_KEY, PROPUBLICA_API_KEY }
      [] version = SrvCivic -> { GOOGLE_CIVIC_API_KEY, CONGRESS_API_KEY, FEC_API_KEY }
      [] version = P1Civic -> { GOOGLE_CIVIC_API_KEY, CONGRESS_API_KEY, FEC_API_KEY }
      [] version = P3State -> { CONGRESS_API_KEY, FEC_API_KEY }
      [] version = P1Addr -> { GOOGLE_CIVIC_API_KEY }
      [] version = SrvEnh -> { GOOGLE_CIVIC_API_KEY, PROPUBLICA_API_KEY }

\* The versions that keep a cache, and so read the clock
Cached == { SrvAddr, SrvEnh, P1Addr, P2Cache }

\* The instants the clock shows: the start, and the last millisecond an entry
\* written at the start is fresh, and the first at which it is expired
Times == { 0, CACHE_DURATION - 1, CACHE_DURATION }

\* Time passes
Tick ==
    /\ up
    /\ server \in Cached
    /\ \E t \in Times : t > now /\ now' = t
    /\ UNCHANGED <<frame, up, cache, req>>

Init ==
    /\ server \in Servers
    /\ env \in SUBSET KeysRead(server)
    /\ up = TRUE
    /\ now = 0
    /\ cache = << >>
    /\ req = [r \in Reqs |-> NoRequest]
    /\ zipIn = << >>
    /\ zipOut = NotLookedUp
    /\ SelIdle
    /\ VotesIdle

Next ==
    \/ Tick
    \/ \E r \in Reqs :
          \/ Close(r)
          \/ Representatives_Addr_NoAddress(r)
          \/ Representatives_Addr_Start(r)
          \/ Representatives_Addr_Civic(r)
          \/ Representatives_Addr_Feed(r)
          \/ VotingRecord_Addr_Start(r)
          \/ VotingRecord_Addr_Votes(r)
          \/ CampaignFinance_Addr_Start(r)
          \/ CampaignFinance_Addr_FecSearch(r)
          \/ CampaignFinance_Addr_FecTotals(r)
          \/ CampaignFinance_Addr_SchedA(r)
          \/ Transcripts_Addr_Start(r)
          \/ Transcripts_Addr_Statements(r)
          \/ Representatives_Civic_NoAddress(r)
          \/ Representatives_Civic_Start(r)
          \/ Representatives_Civic_Civic(r)
          \/ VotingRecord_p1Addr(r)
          \/ CampaignFinance_p1Addr_Start(r)
          \/ CampaignFinance_p1Addr_FecSearch(r)
          \/ CampaignFinance_p1Addr_FecTotals(r)
          \/ Representatives_p3_Start(r)
          \/ Representatives_p3_Feed(r)
          \/ VotingRecord_Name_Start(r)
          \/ VotingRecord_Name_Bills(r)
          \/ CampaignFinance_Name_Start(r)
          \/ CampaignFinance_Name_FecSearch(r)
          \/ CampaignFinance_Name_FecTotals(r)
          \/ Congressman_Region_Start(r)
          \/ Congressman_Region_Feed(r)
          \/ Congressman_Region_FecSearch(r)
          \/ Congressman_Region_FecTotals(r)
          \/ Congressman_Region_Bills(r)
          \/ Congressman_p1_Start(r)
          \/ Congressman_p1_Feed(r)
          \/ Congressman_p1_FecSearch(r)
          \/ Congressman_p1_FecTotals(r)
          \/ Congressman_p2_Start(r)
          \/ Congressman_p2_Feed(r)
          \/ Congressman_p2_FecSearch(r)
          \/ Congressman_p2_FecTotals(r)
          \/ Congressman_Enh_Start(r)
          \/ Congressman_Enh_Civic(r)
          \/ Congressman_Enh_Feed(r)
          \/ Congressman_Enh_FecSearch(r)
          \/ Congressman_Enh_FecDetail(r)
          \/ Congressman_Enh_Stray(r)
          \/ Congressman_Enh_Votes(r)
          \/ Search_Enh_Start(r)
          \/ Search_Enh_Feed(r)

Spec == Init /\ [][Next]_vars

(***************************************************************************)
(* Claims about the ZIP lookups (checked under SpecZip)                    *)
(***************************************************************************)

\* The first n characters of the zipcode, as the claims speak of "its prefix"
ZipPrefix(zip, n) == [i \in 1..Min(n, Len(zip)) |-> zip[i]]

\* C3: for every ZIP code whose prefix is a key of a version's static table, that
\* version's lookup returns the state the table maps the prefix to.
C3_MappedPrefixReturnsState ==
    zipOut.looked =>
        /\ \A e \in zipToState_p1 :
              ZipPrefix(zipIn, 2) = e[1] => zipOut.p1 = e[2]
        /\ \A e \in zipPrefixToState :
              ZipPrefix(zipIn, 3) = e[1] => zipOut.p2.state = e[2]
        /\ \A e \in zipToDistrict :
              ZipPrefix(zipIn, 2) = e[1] => zipOut.loc # Null /\ zipOut.loc.state = e[2].state
        /\ \A e \in stateMapping :
              ZipPrefix(zipIn, 2) = e[1] => zipOut.map # Null /\ zipOut.map.state = e[2].state

\* C3 witness: 60601 was looked up and every two-digit table answered Illinois
C3_Witness ==
    /\ zipOut.looked
    /\ zipIn = <<6, 0, 6, 0, 1>>
    /\ zipOut.p1 = "IL"
    /\ zipOut.loc # Null
    /\ zipOut.loc.state = "IL"
    /\ zipOut.map # Null
    /\ zipOut.map.state = "IL"

\* The state a lookup result names, "null" when the result is null
StateOf(result) == IF result = Null THEN NullStr ELSE result.state

PrefixAbsent(table, prefix) == ~ HasKey(table, prefix)

\* A ZIP code proper: five digits
IsZip(zip) == Len(zip) = 5

\* C4 as claimed: for every ZIP code whose prefix is absent from the static table,
\* the ZIP-to-state lookup of every version returns the default state "CA".
C4_AbsentPrefixReturnsCA ==
    zipOut.looked /\ IsZip(zipIn) =>
        /\ PrefixAbsent(zipPrefixToState, ZipPrefix(zipIn, 3)) => zipOut.p2.state = "CA"
        /\ PrefixAbsent(zipToState_p1, ZipPrefix(zipIn, 2)) => zipOut.p1 = "CA"
        /\ PrefixAbsent(zipToDistrict, ZipPrefix(zipIn, 2)) => StateOf(zipOut.loc) = "CA"

\* C4 amended: for a ZIP code whose prefix is absent from the static table, only
\* part_002's getStateFromZip returns the default state "CA"; part_001's
\* getStateFromZip and server.js's getLocationFromZip and getRepFromMapping
\* return null.
C4_AbsentPrefixDefault ==
    zipOut.looked /\ IsZip(zipIn) =>
        /\ PrefixAbsent(zipPrefixToState, ZipPrefix(zipIn, 3)) => zipOut.p2.state = "CA"
        /\ PrefixAbsent(zipToState_p1, ZipPrefix(zipIn, 2)) => zipOut.p1 = NullStr
        /\ PrefixAbsent(zipToDistrict, ZipPrefix(zipIn, 2)) => zipOut.loc = Null
        /\ PrefixAbsent(stateMapping, ZipPrefix(zipIn, 2)) => zipOut.map = Null

\* C4 witness: 59001 (prefix in no table) was looked up: CA by default in part_002,
\* null elsewhere
C4_Witness ==
    /\ zipOut.looked
    /\ zipIn = <<5, 9, 0, 0, 1>>
    /\ zipOut.p2 = [state |-> "CA", district |-> NoDistrict]
    /\ zipOut.p1 = NullStr
    /\ zipOut.loc = Null
    /\ zipOut.map = Null

\* readme.md:96-98: the prefixes the readme tells to try, with the state of each
ListedPrefixes ==
    { <<<<1,0>>, "NY">>, <<<<2,0>>, "DC">>, <<<<3,0>>, "GA">>, <<<<6,0>>, "IL">>,
      <<<<9,0>>, "CA">>, <<<<9,4>>, "CA">> }

\* part_002's getStateFromZip finds the ZIP code in one of its two tables
InTables_p2(zip) ==
    \/ HasKey(zipToState_p2, zip)
    \/ HasKey(zipPrefixToState, ZipPrefix(zip, 3))

\* C14: every five-digit ZIP code starting with 10, 20, 30, 60, 90 or 94 is
\* covered by the ZIP mapping of each ZIP lookup: the lookup resolves it through
\* a table entry to NY, DC, GA, IL, CA and CA respectively, never through the
\* not-found or default path.
C14_ListedPrefixesCovered ==
    zipOut.looked /\ IsZip(zipIn) =>
        \A e \in ListedPrefixes :
            ZipPrefix(zipIn, 2) = e[1] =>
                /\ zipOut.p1 = e[2]
                /\ StateOf(zipOut.loc) = e[2]
                /\ StateOf(zipOut.map) = e[2]
                /\ InTables_p2(zipIn)
                /\ zipOut.p2.state = e[2]

(***************************************************************************)
(* Claims about the servers (checked under Spec)                           *)
(***************************************************************************)

\* The handler of request r has ended: it returned, or its promise rejected
Ended(rq) == rq.pc \in {"done", "rejected"}

\* The states a ZIP table of server.js:780 names, and the "Unknown" of its catch block
FallbackStates_Region == { e[2].state : e \in zipToDistrict } \cup { "Unknown" }

\* `body` is the hardcoded fallback payload of the version's /api/congressman
IsFallback(version, zipcode, body) ==
    CASE version = SrvRegion -> \E state \in FallbackStates_Region : body = Fallback_Region(state)
      [] version = P1Zip -> body = Fallback_p1(zipcode)
      [] version = P2Cache -> body = ErrorPayload_p2
      [] version = SrvEnh -> body = Fallback_Enh
      [] OTHER -> FALSE

\* C2: in every /api/congressman/:zipcode version, whenever the fetch of the
\* legislators feed fails (it rejects or answers a status that is not ok), the
\* request is answered with exactly that version's hardcoded fallback payload.
C2_FeedFailureFallback ==
    \A r \in Reqs :
        (req[r].route = "congressman" /\ FEED \in req[r].failed /\ Ended(req[r])) =>
            /\ Len(req[r].resp) = 1
            /\ IsFallback(server, req[r].arg, req[r].resp[1].body)

\* C5: every request whose outbound calls have all settled and whose handler has
\* ended, through its catch block or not, has received an HTTP response.
C5_EndedRequestAnswered ==
    \A r \in Reqs :
        (Ended(req[r]) /\ req[r].inflight = {}) => Len(req[r].resp) >= 1

(***************************************************************************)
(* Claims about the cache (checked under Spec)                             *)
(***************************************************************************)

\* The entry of `key` is there and its age is at least CACHE_DURATION
Expired(key) ==
    /\ key \in DOMAIN cache
    /\ now - cache[key].timestamp >= CACHE_DURATION

\* Request r arrives in this step
Arrives(r) == req[r].route = "none" /\ req'[r].route # "none"

\* The key under which the request is cached in the versions that cache responses
ResponseKey(rq) ==
    IF server = P2Cache THEN CacheKey_p2(rq.arg) ELSE CacheKey_Addr(rq.arg)

\* The data a response carries in the versions that cache responses
ResponseData(rq) ==
    IF server = P2Cache THEN rq.resp[1].body ELSE rq.resp[1].body.representatives

\* Request r is one the version answers from its response cache
IsCachedRoute(rq) ==
    \/ server = P2Cache /\ rq.route = "congressman"
    \/ server \in ByAddress /\ rq.route = "representatives" /\ rq.arg # Null

\* A request arriving at an expired entry is not answered from it: it leaves the
\* step with no response and its upstream call in flight
C1_NotServed(r) ==
    /\ (Arrives(r) /\ IsCachedRoute(req'[r]) /\ Expired(ResponseKey(req'[r]))) =>
           /\ req'[r].resp = <<>>
           /\ req'[r].inflight # {}
    /\ (server = SrvEnh /\ Arrives(r) /\ req'[r].route = "congressman"
          /\ Expired(RepKey_Enh(req'[r].arg))) =>
           /\ req'[r].resp = <<>>
           /\ CIVIC \in req'[r].inflight
    /\ (server = SrvEnh /\ req[r].route = "congressman"
          /\ req[r].pc = "feed" /\ req'[r].pc # "feed"
          /\ req'[r].loc.rep # Null /\ Expired(FundingKey_Enh(req'[r].loc.rep.name))) =>
           /\ req'[r].resp = <<>>
           /\ FEC_SEARCH \in req'[r].inflight
    /\ (server = SrvEnh /\ req[r].route = "congressman"
          /\ req[r].pc \in {"feed", "fecSearch", "fecDetail"}
          /\ req'[r].pc \in {"ppRecent", "done"}
          /\ req'[r].loc.rep # Null /\ Expired(VotesKey_Enh(req'[r].loc.rep.name))) =>
           /\ req'[r].resp = <<>>
           /\ PP_RECENT \in req'[r].inflight

\* A refetch that gave the data leaves it in the cache with the time of the write
C1_Replaced(r) ==
    /\ (IsCachedRoute(req[r]) /\ req[r].pc \notin {"run", "done"} /\ req'[r].pc = "done"
          /\ req'[r].resp[1].status = 200) =>
           cache'[ResponseKey(req[r])] = [data |-> ResponseData(req'[r]), timestamp |-> now]
    /\ (server = SrvEnh /\ req[r].pc = "civic" /\ req'[r].pc = "feed"
          /\ req'[r].loc.repInfo # Null /\ ~ req'[r].loc.repInfo.needsRefinement) =>
           cache'[RepKey_Enh(req[r].arg)] =
               [data |-> req'[r].loc.repInfo, timestamp |-> now]
    /\ (server = SrvEnh /\ req[r].pc = "fecDetail" /\ req'[r].pc # "fecDetail"
          /\ req'[r].loc.totals # Null /\ req'[r].loc.sched # Null) =>
           cache'[FundingKey_Enh(req[r].loc.rep.name)] =
               [data |-> req'[r].loc.funding, timestamp |-> now]
    /\ (server = SrvEnh /\ req[r].pc = "ppRecent" /\ req'[r].pc = "done"
          /\ PP_RECENT \notin req'[r].failed) =>
           cache'[VotesKey_Enh(req[r].loc.rep.name)] =
               [data |-> req'[r].resp[1].body.votingRecord, timestamp |-> now]

\* C1: a cache entry whose age is at least CACHE_DURATION is never served; a
\* request for its key performs the upstream fetch again and, when the fetch
\* gives the data, the entry is replaced by the new data with the time of the write
C1_ExpiredEntryRefetched ==
    [][\A r \in Reqs : C1_NotServed(r) /\ C1_Replaced(r)]_vars

\* A request is refetching for a key whose entry has expired at the very
\* millisecond the duration is reached
C1_Witness ==
    \E r \in Reqs :
        /\ IsCachedRoute(req[r])
        /\ Expired(ResponseKey(req[r]))
        /\ now - cache[ResponseKey(req[r])].timestamp = CACHE_DURATION
        /\ req[r].resp = <<>>
        /\ req[r].inflight # {}

\* C6: two concurrent requests for one key that found no fresh entry each have
\* their own upstream call, and every write of the cache is the whole pair
\* {data, timestamp} of the one request that writes in that step, so the entry
\* left is that of the request that wrote last
C6_LastWriterWins ==
    [][/\ \A r \in Reqs :
            (IsCachedRoute(req'[r]) /\ req'[r].pc \notin {"run", "done"}) =>
                req'[r].inflight # {}
       /\ \A r \in Reqs :
            (IsCachedRoute(req[r]) /\ req[r].pc \notin {"run", "done"}
               /\ req'[r].pc = "done" /\ req'[r].resp[1].status = 200) =>
                /\ cache'[ResponseKey(req[r])] =
                       [data |-> ResponseData(req'[r]), timestamp |-> now]
                /\ \A q \in Reqs \ {r} : req'[q] = req[q]
       /\ \A key \in DOMAIN cache' :
            /\ DOMAIN cache'[key] = {"data", "timestamp"}
            /\ (key \notin DOMAIN cache \/ cache'[key] # cache[key]) =>
                   \E r \in Reqs : req'[r] # req[r] /\ req'[r].pc \in {"done", "feed", "ppRecent"}
      ]_vars

\* Both requests for one key fetched upstream, their answers differ, and the entry
\* holds the answer of the second
C6_Witness ==
    /\ server \in {SrvAddr, P2Cache}
    /\ IsCachedRoute(req[1]) /\ IsCachedRoute(req[2])
    /\ req[1].arg = req[2].arg
    /\ req[1].pc = "done" /\ req[2].pc = "done"
    /\ req[1].issued # <<>> /\ req[2].issued # <<>>
    /\ req[1].resp[1].status = 200 /\ req[2].resp[1].status = 200
    /\ ResponseData(req[1]) # ResponseData(req[2])
    /\ cache[ResponseKey(req[2])].data = ResponseData(req[2])

\* C7: no step removes a cache entry; the set of cached keys only grows
C7_EntriesNeverRemoved ==
    [][DOMAIN cache \subseteq DOMAIN cache']_vars

\* An expired entry is still there beside the entry of another key written after
\* it expired
C7_Witness ==
    \E old, new \in DOMAIN cache :
        /\ Expired(old)
        /\ cache[new].timestamp - cache[old].timestamp >= CACHE_DURATION

(***************************************************************************)
(* Claims about the outbound calls (checked under Spec)                    *)
(***************************************************************************)

\* C8: within one request every outbound endpoint is called at most once,
\* whatever the outcome of the call
C8_NoRetries ==
    \A r \in Reqs :
        \A i, j \in 1..Len(req[r].issued) :
            i # j => req[r].issued[i] # req[r].issued[j]

\* A request whose call failed went on to its next call and ended without
\* calling the failed endpoint again
C8_Witness ==
    \E r \in Reqs :
        /\ req[r].pc = "done"
        /\ req[r].failed # {}
        /\ Len(req[r].issued) >= 2
        /\ req[r].inflight = {}

\* C9 as stated: a request never has two outbound calls in flight
C9_OneCallInFlight ==
    \A r \in Reqs : Cardinality(req[r].inflight) <= 1

\* C9: a request has one outbound call in flight at a time, but for the FEC totals
\* and schedule_b calls that server.js:1453 starts together: one of the two is
\* among the calls in flight whenever there are two, and there are never three
C9_OneCallButFundingPair ==
    \A r \in Reqs :
        \/ Cardinality(req[r].inflight) <= 1
        \/ /\ server = SrvEnh
           /\ Cardinality(req[r].inflight) = 2
           /\ req[r].inflight \cap {FEC_TOTALS, FEC_SCHED_B} # {}

\* The two calls of Promise.all are in flight together
C9_Witness ==
    \E r \in Reqs :
        /\ server = SrvEnh
        /\ req[r].pc = "fecDetail"
        /\ req[r].inflight = {FEC_TOTALS, FEC_SCHED_B}

(***************************************************************************)
(* Claims about /api/representatives (checked under Spec)                  *)
(***************************************************************************)

\* Request r was answered with the list built from a Civic answer
CivicListSent(r) ==
    /\ server \in {SrvCivic, P1Civic}
    /\ req[r].route = "representatives"
    /\ req[r].pc = "done"
    /\ req[r].loc # Null

\* C10: in the response built from Google Civic data every entry whose office is
\* 'Senator' precedes every entry whose office is not, and entries of the same
\* office keep the order in which they were collected
C10_SenatorsFirstStable ==
    \A r \in Reqs :
        CivicListSent(r) =>
            LET sent == req[r].resp[1].body.representatives
                collected == req[r].loc.representatives
                IsSenator(e) == e.office = "Senator"
                IsOther(e) == e.office # "Senator"
            IN  /\ \A i, j \in 1..Len(sent) :
                       (IsSenator(sent[j]) /\ IsOther(sent[i])) => j < i
                /\ SelectSeq(sent, IsSenator) = SelectSeq(collected, IsSenator)
                /\ SelectSeq(sent, IsOther) = SelectSeq(collected, IsOther)

\* The list was collected with a representative ahead of a senator, and with two
\* entries of each office
C10_Witness ==
    \E r \in Reqs :
        /\ CivicListSent(r)
        /\ LET collected == req[r].loc.representatives
           IN  /\ Len(collected) = 4
               /\ collected[1].office = "Representative"
               /\ collected[2].office = "Senator"
               /\ collected[3].office = "Representative"
               /\ collected[4].office = "Senator"
               /\ req[r].resp[1].body.representatives # collected

\* The provider a route of a version calls under an API key: the key and the
\* endpoints of the provider
KeyedProviders ==
    { <<v, "voting-record", CONGRESS_API_KEY, {BILLS}>> : v \in ByName }
    \cup { <<v, "campaign-finance", FEC_API_KEY, {FEC_SEARCH, FEC_TOTALS}>> : v \in ByName }
    \cup { <<SrvAddr, "voting-record", PROPUBLICA_API_KEY, {PP_VOTES}>> }
    \cup { <<v, "representatives", GOOGLE_CIVIC_API_KEY, {CIVIC}>> : v \in {SrvCivic, P1Civic} }

\* The hardcoded payload a route of a version answers without the key
KeylessPayload(version, route) ==
    CASE route = "voting-record" /\ version = SrvAddr ->
             [grouped |-> [topic \in {"Voting Record"} |-> << "ProPublica API key required" >>],
              raw |-> <<>>]
      [] route = "voting-record" /\ version = SrvCivic ->
             [votes |-> << [bill |-> "Voting record data requires Congress.gov API key",
                            vote |-> "N/A"] >>]
      [] route = "voting-record" /\ version = P1Civic ->
             [votes |-> << [bill |-> "Voting records require Congress.gov API key",
                            vote |-> "N/A"] >>]
      [] route = "voting-record" /\ version = P3State ->
             [votes |-> << [bill |-> "H.R. 1234 - Infrastructure Investment Act",
                            vote |-> "Yes"] >>]
      [] route = "campaign-finance" ->
             [totalRaised |-> Text("N/A"), sources |-> <<>>]
      [] route = "representatives" ->
             [error |-> TRUE, message |-> "Google Civic API key not configured",
              representatives |-> <<>>]

\* Request rq is on a route that calls a provider under key p[3], and has its
\* parameter
OnKeyedRoute(rq, p) ==
    /\ server = p[1]
    /\ rq.route = p[2]
    /\ rq.route = "representatives" => rq.arg # Null

BillsFailed(rq) ==
    /\ server \in ByName
    /\ rq.route = "voting-record"
    /\ Ended(rq)
    /\ BILLS \in rq.failed

\* `votes` holds exactly one entry, the placeholder of the version
OnePlaceholder(version, votes) ==
    /\ Len(votes) = 1
    /\ votes[1].vote = (IF version = P3State THEN "Yes" ELSE "N/A")
    /\ votes[1].bill \in { "Voting record data requires Congress.gov API key",
                          "Voting records require Congress.gov API key",
                          "H.R. 1234 - Infrastructure Investment Act" }

\* C12 as stated: for /api/voting-record/:name, whenever the Congress.gov bills
\* call fails (a status that is not ok, or a rejected fetch), the response is a
\* votes list holding exactly one placeholder entry.
C12_BillsFailurePlaceholder ==
    \A r \in Reqs :
        BillsFailed(req[r]) =>
            /\ Len(req[r].resp) = 1
            /\ OnePlaceholder(server, req[r].resp[1].body.votes)

\* C12, amended: for /api/voting-record/:name, a bills call answered with a
\* status that is not ok gives a votes list holding exactly one placeholder
\* entry, and a bills call whose fetch rejects gives the empty votes list of the
\* catch block; both are sent with status 200.
C12_BillsFailurePlaceholderOrEmpty ==
    \A r \in Reqs :
        BillsFailed(req[r]) =>
            /\ Len(req[r].resp) = 1
            /\ req[r].resp[1].status = 200
            /\ IF req[r].loc.caught
               THEN req[r].resp[1].body.votes = <<>>
               ELSE OnePlaceholder(server, req[r].resp[1].body.votes)

\* A bills call answered a status that is not ok and the placeholder was sent
C12_Witness ==
    \E r \in Reqs :
        /\ BillsFailed(req[r])
        /\ ~req[r].loc.caught
        /\ req[r].resp[1].body.votes = << VotesPlaceholder(server) >>
        /\ server = SrvCivic

\* Request rq looks representatives up: by ZIP code, or by an address that names
\* its state
IsLookup(rq) ==
    \/ rq.route = "congressman"
    \/ /\ rq.route = "representatives"
       /\ rq.arg # Null
       /\ rq.arg.state # NullStr

\* `body` is an error payload: it carries the error member
IsErrorPayload(body) == "error" \in DOMAIN body

\* C13: with no API key set in the environment, a representative lookup
\* (/api/congressman/:zipcode or /api/representatives) that ended with no call
\* of its own failing was answered once, with status 200 and representative
\* data, not with an error payload.
C13_KeylessLookupReturnsData ==
    \A r \in Reqs :
        (IsLookup(req[r]) /\ Ended(req[r]) /\ env = {} /\ req[r].failed = {}) =>
            /\ Len(req[r].resp) = 1
            /\ req[r].resp[1].status = 200
            /\ ~IsErrorPayload(req[r].resp[1].body)

\* Request rq asks getRepresentativesByAddress for an address
AsksAddress(rq) ==
    /\ server \in ByAddress
    /\ rq.route = "representatives"
    /\ rq.arg # Null

\* The entries a list of representatives may hold: a senator, a House member, or
\* a placeholder of type 'Error'
IsEntry(e) == e.type \in { "Senator", "Representative", "Error" }

\* A non-empty list of such entries
NonEmptyList(list) ==
    /\ Len(list) > 0
    /\ \A i \in 1..Len(list) : IsEntry(list[i])

\* C15: whenever getRepresentativesByAddress returns normally, the list it
\* returns is non-empty (representatives or a placeholder entry of type
\* 'Error'); so every cache entry under a 'reps-' key holds a non-empty list.
C15_ReturnedListNonEmpty ==
    /\ \A r \in Reqs :
          (AsksAddress(req[r]) /\ Ended(req[r]) /\ req[r].resp[1].status = 200) =>
              NonEmptyList(req[r].resp[1].body.representatives)
    /\ server \in ByAddress =>
          \A key \in DOMAIN cache : key[1] = "reps-" /\ NonEmptyList(cache[key].data)

\* Civic found no federal office and the feed was not ok: the list returned and
\* cached holds the one placeholder of type 'Error'
C15_Witness ==
    \E r \in Reqs :
        /\ AsksAddress(req[r])
        /\ Ended(req[r])
        /\ req[r].issued = << CIVIC, FEED >>
        /\ FEED \in req[r].failed
        /\ Len(req[r].resp[1].body.representatives) = 1
        /\ req[r].resp[1].body.representatives[1].type = "Error"
        /\ cache[CacheKey_Addr(req[r].arg)].data = req[r].resp[1].body.representatives

\* The list holds the 'Unable to load representatives' placeholder
HasUnableToLoad(list) ==
    \E i \in 1..Len(list) : list[i].name = "Unable to load representatives"

\* C16: in getRepresentativesByAddress the fallback chain is ordered: the Civic
\* call comes first and only under its key, the legislators feed is fetched
\* only if the Civic step produced no representative (key absent, response not
\* ok, or no federal office matched), and the 'Unable to load representatives'
\* placeholder is added only if the feed step produced none either.
C16_FallbackChainOrdered ==
    \A r \in Reqs :
        (AsksAddress(req[r]) /\ req[r].loc # Null) =>
            /\ req[r].issued \in { <<>>, << CIVIC >>, << FEED >>, << CIVIC, FEED >> }
            /\ Len(req[r].issued) > 0 /\ req[r].issued[1] = CIVIC =>
                   GOOGLE_CIVIC_API_KEY \in env
            /\ (\E i \in 1..Len(req[r].issued) : req[r].issued[i] = FEED) =>
                   req[r].loc.civic = <<>>
            /\ (req[r].pc = "done" /\ req[r].resp[1].status = 200
                  /\ HasUnableToLoad(req[r].resp[1].body.representatives)) =>
                   /\ req[r].issued[Len(req[r].issued)] = FEED
                   /\ req[r].inflight = {}
                   /\ req[r].loc.civic = <<>>
                   /\ req[r].loc.feed = <<>>

\* Both steps ran and produced nothing, and the placeholder was sent
C16_Witness ==
    \E r \in Reqs :
        /\ AsksAddress(req[r])
        /\ req[r].pc = "done"
        /\ req[r].issued = << CIVIC, FEED >>
        /\ req[r].failed = {}
        /\ req[r].loc = Steps(<<>>, <<>>, FALSE)
        /\ HasUnableToLoad(req[r].resp[1].body.representatives)

\* The list the inner catch block of server.js leaves: the one placeholder entry
UnavailableList(address) ==
    << [name |-> "Representatives Unavailable", type |-> "Error",
        state |-> getStateFromAddress(address)] >>

\* In this step the feed fetch of request r threw and the function returned
FeedThrew(r) ==
    /\ server = SrvAddr
    /\ AsksAddress(req[r])
    /\ req[r].pc = "feed"
    /\ req'[r].pc = "done"
    /\ req'[r].loc.caught

\* In this step request r arrives for an address whose cache entry is the
\* placeholder list, written less than CACHE_DURATION ago
ArrivesOnPlaceholder(r) ==
    /\ server = SrvAddr
    /\ Arrives(r)
    /\ AsksAddress(req'[r])
    /\ CacheKey_Addr(req'[r].arg) \in DOMAIN cache
    /\ cache[CacheKey_Addr(req'[r].arg)].data = UnavailableList(req'[r].arg)
    /\ now - cache[CacheKey_Addr(req'[r].arg)].timestamp < CACHE_DURATION

\* C18: in the getRepresentativesByAddress of server.js, when the fetch of the
\* legislators feed throws, the 'Representatives Unavailable' placeholder list
\* is stored in the cache like a normal result, and every later request for the
\* same address within CACHE_DURATION is answered with the placeholder and
\* issues no outbound call.
C18_FeedFailureCached ==
    [][\A r \in Reqs :
          /\ FeedThrew(r) =>
                /\ req'[r].resp = << [status |-> 200,
                                       body |-> [representatives |->
                                                    UnavailableList(req[r].arg)]] >>
                /\ cache'[CacheKey_Addr(req[r].arg)] =
                       [data |-> UnavailableList(req[r].arg), timestamp |-> now]
          /\ ArrivesOnPlaceholder(r) =>
                /\ req'[r].pc = "done"
                /\ req'[r].issued = <<>>
                /\ req'[r].resp = << [status |-> 200,
                                       body |-> [representatives |->
                                                    UnavailableList(req'[r].arg)]] >>
                /\ cache' = cache]_vars

\* The feed fetch of one request threw, and another request was answered with the
\* cached placeholder without a call
C18_Witness ==
    \E r, q \in Reqs :
        /\ server = SrvAddr
        /\ AsksAddress(req[r])
        /\ req[r].pc = "done"
        /\ req[r].loc # Null
        /\ req[r].loc.caught
        /\ AsksAddress(req[q])
        /\ req[q].pc = "done"
        /\ req[q].loc = Null
        /\ req[q].issued = <<>>
        /\ req[q].resp[1].body.representatives = UnavailableList(req[q].arg)

\* In this step request r is answered with status 500
Sends500(r) ==
    /\ Len(req'[r].resp) = Len(req[r].resp) + 1
    /\ req'[r].resp[Len(req'[r].resp)].status = 500

\* In this step request r ends with a 200 response
Ends200(r) ==
    /\ req[r].pc \notin {"run", "done"}
    /\ req'[r].pc = "done"
    /\ req'[r].resp[1].status = 200

\* C19: when a request ends with an HTTP 500 error response (part_002
\* /api/congressman/:zipcode, /api/representatives of part_001 with a throwing
\* fetch), the cache is left exactly as it was before the request: the step that
\* sends the 500 writes nothing, the only steps of these versions that write the
\* cache are those that end a request with a 200 response, and a request
\* arriving for a key with no fresh entry performs the upstream fetch again.
C19_ErrorLeavesCache ==
    [][/\ \A r \in Reqs :
             (IsCachedRoute(req'[r]) /\ Sends500(r)) => cache' = cache
       /\ (server \in ByAddress \cup {P2Cache} /\ cache' # cache) =>
             \E r \in Reqs : IsCachedRoute(req[r]) /\ Ends200(r)
       /\ \A r \in Reqs :
             (Arrives(r) /\ IsCachedRoute(req'[r])
                /\ ~ Fresh(cache, ResponseKey(req'[r]), CACHE_DURATION)) =>
                 /\ req'[r].resp = <<>>
                 /\ Len(req'[r].issued) = 1]_vars

\* In part_001 a request ended with 500 after its feed fetch threw, nothing is
\* cached, and another request for the address has fetched again
C19_Witness ==
    \E r, q \in Reqs :
        /\ server = P1Addr
        /\ AsksAddress(req[r])
        /\ req[r].pc = "done"
        /\ req[r].resp[1].status = 500
        /\ FEED \in req[r].failed
        /\ DOMAIN cache = {}
        /\ AsksAddress(req[q])
        /\ req[q].arg = req[r].arg
        /\ req[q].pc = "feed"
        /\ req[q].issued = << FEED >>

\* The entry of `key` is there and younger than CACHE_DURATION
Young(key) ==
    /\ key \in DOMAIN cache
    /\ now - cache[key].timestamp < CACHE_DURATION

\* Request r arrives in this step at a young entry of its key: the key of the
\* response in the versions that cache responses, the rep_ key in server.js:1453
ArrivesAtYoung(r) ==
    /\ Arrives(r)
    /\ \/ IsCachedRoute(req'[r]) /\ Young(ResponseKey(req'[r]))
       \/ /\ server = SrvEnh
          /\ req'[r].route = "congressman"
          /\ Young(RepKey_Enh(req'[r].arg))

\* C17 as stated: a request whose key has a cache entry younger than
\* CACHE_DURATION is answered from that entry with no outbound call and leaves
\* the cache unchanged.
C17_FreshEntryNoCall ==
    [][\A r \in Reqs :
          ArrivesAtYoung(r) =>
              /\ req'[r].pc = "done"
              /\ req'[r].issued = <<>>
              /\ Len(req'[r].resp) = 1
              /\ cache' = cache]_vars

\* The versions that cache responses answer a request at a young entry from it
C17_Response(r) ==
    (Arrives(r) /\ IsCachedRoute(req'[r]) /\ Young(ResponseKey(req'[r]))) =>
        /\ req'[r].pc = "done"
        /\ req'[r].issued = <<>>
        /\ req'[r].resp = << [status |-> 200, body |-> req'[r].resp[1].body] >>
        /\ ResponseData(req'[r]) = cache[ResponseKey(req'[r])].data
        /\ cache' = cache

\* server.js:1453 reads three keys in a request; a young entry spares the call
\* of its provider and is left as it is, and the legislators feed is fetched
\* all the same
C17_Lookups(r) ==
    /\ (server = SrvEnh /\ Arrives(r) /\ req'[r].route = "congressman"
          /\ Young(RepKey_Enh(req'[r].arg))) =>
           /\ req'[r].issued = << FEED >>
           /\ req'[r].loc.repInfo = cache[RepKey_Enh(req'[r].arg)].data
           /\ cache' = cache
    /\ (server = SrvEnh /\ req[r].route = "congressman"
          /\ req[r].pc = "feed" /\ req'[r].pc # "feed"
          /\ req'[r].loc.rep # Null /\ Young(FundingKey_Enh(req'[r].loc.rep.name))) =>
           /\ \A i \in 1..Len(req'[r].issued) :
                 req'[r].issued[i] \notin { FEC_SEARCH, FEC_TOTALS, FEC_SCHED_B }
           /\ req'[r].loc.funding = cache[FundingKey_Enh(req'[r].loc.rep.name)].data
           /\ cache' = cache
    /\ (server = SrvEnh /\ req[r].route = "congressman"
          /\ req[r].pc \in {"feed", "fecSearch", "fecDetail"}
          /\ req'[r].pc \in {"ppRecent", "done"}
          /\ req'[r].loc.rep # Null /\ Young(VotesKey_Enh(req'[r].loc.rep.name))) =>
           /\ req'[r].pc = "done"
           /\ \A i \in 1..Len(req'[r].issued) : req'[r].issued[i] # PP_RECENT
           /\ req'[r].resp[1].body.votingRecord =
                  cache[VotesKey_Enh(req'[r].loc.rep.name)].data
           /\ cache'[VotesKey_Enh(req'[r].loc.rep.name)] =
                  cache[VotesKey_Enh(req'[r].loc.rep.name)]

\* C17, amended: in the versions that cache responses (part_002, and
\* getRepresentativesByAddress) a request whose key has an entry younger than
\* CACHE_DURATION is answered from that entry with no outbound call and leaves
\* the cache unchanged.  In server.js:1453 a young entry under the rep_,
\* funding_ or votes_ key spares only the call of that lookup (Google Civic,
\* FEC, ProPublica) and is left as it is; the request still fetches the
\* legislators feed.  No read refreshes a timestamp.
C17_FreshEntrySparesItsCall ==
    [][\A r \in Reqs : C17_Response(r) /\ C17_Lookups(r)]_vars

\* A request of part_002 was answered from an entry one millisecond short of
\* CACHE_DURATION, which was left as it was
C17_Witness ==
    \E r \in Reqs :
        /\ server = P2Cache
        /\ req[r].route = "congressman"
        /\ req[r].pc = "done"
        /\ req[r].issued = <<>>
        /\ CacheKey_p2(req[r].arg) \in DOMAIN cache
        /\ now - cache[CacheKey_p2(req[r].arg)].timestamp = CACHE_DURATION - 1
        /\ req[r].resp[1].body = cache[CacheKey_p2(req[r].arg)].data

\* The FEC endpoints
FecEndpoints == { FEC_SEARCH, FEC_TOTALS, FEC_SCHED_A, FEC_SCHED_B }

\* A request of /api/congressman/:zipcode ended after an FEC call of its own
\* failed
FecFailed(rq) ==
    /\ rq.route = "congressman"
    /\ rq.pc = "done"
    /\ rq.failed \cap FecEndpoints # {}

\* The fundingData each variant starts from (server.js:900-903, 1756-1760,
\* part_001:707-710, part_002:102-105)
DefaultFunding(version) ==
    CASE version = SrvRegion -> [totalRaised |-> [text |-> "Loading..."]]
      [] version = P1Zip -> [totalRaised |-> [text |-> "Loading..."]]
      [] version = P2Cache -> [totalRaised |-> [text |-> "Data unavailable"]]
      [] version = SrvEnh -> [totalRaised |-> [text |-> "Loading..."],
                              topContributors |-> <<>>]

\* The response is no error payload and names the representative chosen from
\* the legislators feed
AnsweredFromFeed(rq) ==
    /\ Len(rq.resp) = 1
    /\ rq.resp[1].status = 200
    /\ ~ IsErrorPayload(rq.resp[1].body)
    /\ rq.loc.rep # Null
    /\ rq.resp[1].body.representative = [name |-> rq.loc.rep.name, state |-> rq.loc.rep.state]

\* C20 as stated: a failure of the FEC campaign-finance calls inside
\* /api/congressman/:zipcode (a status that is not ok or a rejected fetch) never
\* turns the response into the error payload: the representative section is
\* built from the legislators feed and the funding section is the variant's
\* default funding placeholder.
C20_FecFailureDefaultFunding ==
    \A r \in Reqs :
        FecFailed(req[r]) =>
            /\ AnsweredFromFeed(req[r])
            /\ req[r].resp[1].body.funding = DefaultFunding(server)

\* C20, amended: a failure of the FEC calls never turns the response into the
\* error payload and the representative section is built from the legislators
\* feed.  In server.js:780, part_001:641 and part_002, which call FEC one call
\* after the other, the funding section is then the variant's default
\* placeholder.  In server.js:1453, which fetches the totals and schedule_b
\* together, it is the default when the candidate search fails; when only one of
\* the two fails the section keeps what the other gave: totalRaised is
\* 'Loading...' if the totals failed, and there are no top contributors if
\* schedule_b failed.
C20_FecFailureKeepsRepresentative ==
    \A r \in Reqs :
        FecFailed(req[r]) =>
            /\ AnsweredFromFeed(req[r])
            /\ LET funding == req[r].resp[1].body.funding
               IN  IF server # SrvEnh
                   THEN funding = DefaultFunding(server)
                   ELSE /\ FEC_SEARCH \in req[r].failed => funding = DefaultFunding(server)
                        /\ FEC_TOTALS \in req[r].failed =>
                               funding.totalRaised = [text |-> "Loading..."]
                        /\ FEC_SCHED_B \in req[r].failed =>
                               \/ "topContributors" \notin DOMAIN funding
                               \/ funding.topContributors = <<>>

\* In part_002 the candidate search failed and the response carries the
\* representative with the default funding
C20_Witness ==
    \E r \in Reqs :
        /\ server = P2Cache
        /\ FecFailed(req[r])
        /\ FEC_SEARCH \in req[r].failed
        /\ req[r].resp[1].status = 200
        /\ req[r].resp[1].body.representative.name = req[r].loc.rep.name
        /\ req[r].resp[1].body.funding = FundingUnavailable

\* C21: no request ever gets more than one response: on every path through
\* every route handler (the early returns for validation, missing key and
\* upstream error, the success path and the catch block) at most one of
\* res.json, res.status(...).json and res.send is executed.
C21_AtMostOneResponse ==
    \A r \in Reqs :
        /\ Len(req[r].resp) <= 1
        /\ req[r].pc = "done" => Len(req[r].resp) = 1

\* The handler of part_001:245 went through both of its calls and then its catch
\* block, and one response was sent
C21_Witness ==
    \E r \in Reqs :
        /\ server = P1Addr
        /\ req[r].route = "campaign-finance"
        /\ req[r].pc = "done"
        /\ req[r].issued = << FEC_SEARCH, FEC_TOTALS >>
        /\ FEC_TOTALS \in req[r].failed
        /\ req[r].resp = << [status |-> 200, body |-> NoFinance_p1Addr] >>

\* In this step a request arrives at /api/representatives without an address
ArrivesWithoutAddress(r) ==
    /\ Arrives(r)
    /\ req'[r].route = "representatives"
    /\ req'[r].arg = Null

\* The body of the 400 of each version
AddressRequired(version) ==
    IF version \in { SrvAddr, P1Addr }
    THEN [error |-> "Address parameter is required"]
    ELSE [error |-> TRUE, message |-> "Address is required"]

\* C22: a request to /api/representatives without an address parameter is
\* answered with HTTP 400, issues no outbound call, and leaves the cache
\* unchanged.
C22_NoAddressIs400 ==
    [][\A r \in Reqs :
          ArrivesWithoutAddress(r) =>
              /\ req'[r].pc = "done"
              /\ req'[r].resp = << [status |-> 400, body |-> AddressRequired(server)] >>
              /\ req'[r].issued = <<>>
              /\ req'[r].inflight = {}
              /\ cache' = cache]_vars

\* With an entry in the cache of server.js:15, a request without an address was
\* answered 400 and issued nothing
C22_Witness ==
    \E r \in Reqs :
        /\ server = SrvAddr
        /\ DOMAIN cache # {}
        /\ req[r].route = "representatives"
        /\ req[r].arg = Null
        /\ req[r].pc = "done"
        /\ req[r].issued = <<>>
        /\ req[r].resp[1].status = 400

\* Request r of server.js:1453 was answered with responseData
AnsweredData_Enh(r) ==
    /\ server = SrvEnh
    /\ req[r].route = "congressman"
    /\ req[r].pc = "done"
    /\ req[r].resp[1].status = 200

\* The location of request r came from the static ZIP mapping
FromMapping_Enh(r) ==
    /\ getRepFromMapping(req[r].arg) # Null
    /\ req[r].loc.repInfo = getRepFromMapping(req[r].arg)

\* C25: in the server.js 'enhanced' /api/congressman/:zipcode,
\* metadata.dataSource is 'approximate' exactly when the location came from the
\* static ZIP mapping (needsRefinement set), and 'exact' in every other case,
\* including when no location was found at all (getRepresentativeByZip
\* returned null) and the first House member of the feed was used.
C25_DataSource ==
    \A r \in Reqs :
        AnsweredData_Enh(r) =>
            LET dataSource == req[r].resp[1].body.metadata.dataSource
            IN  /\ dataSource \in { "approximate", "exact" }
                /\ dataSource = "approximate" <=> FromMapping_Enh(r)
                /\ req[r].loc.repInfo = Null => dataSource = "exact"

\* The Civic call rejected, no location was found, the first House member of the
\* feed, of another state than the ZIP code's, was used, and the data is called exact
C25_Witness ==
    \E r \in Reqs :
        /\ AnsweredData_Enh(r)
        /\ CIVIC \in req[r].failed
        /\ req[r].loc.repInfo = Null
        /\ req[r].loc.rep.name = "NY-12"
        /\ req[r].resp[1].body.representative.name = "NY-12"
        /\ req[r].resp[1].body.metadata.dataSource = "exact"

\* The location came from the static mapping and the data is called approximate
C25_WitnessApproximate ==
    \E r \in Reqs :
        /\ AnsweredData_Enh(r)
        /\ FromMapping_Enh(r)
        /\ req[r].resp[1].body.metadata.dataSource = "approximate"

\* Request r has a call in flight
Pending(r) == req[r].inflight # {}

\* The handler of request r has ended, with or without a response, or the
\* process has
Over(r) == Ended(req[r]) \/ ~ up

\* A step in which a call of request r settles and its handler runs on
Settles(r) == Next /\ Pending(r) /\ req'[r] # req[r]

\* The calls of every request but the first settle in the end; those of the
\* first may stay in flight for ever
SpecHung == Init /\ [][Next]_vars /\ \A r \in Reqs \ {1} : WF_vars(Settles(r))

\* While a call of a request is in flight the request has no response
NoResponseWhilePending ==
    \A r \in Reqs : Pending(r) => req[r].resp = <<>>

\* Whatever becomes of the first request's calls, a later request with a call in
\* flight reaches the end of its handler
OthersServed ==
    \A r \in Reqs \ {1} : Pending(r) ~> Over(r)

\* C27 as stated: no handler cancels or times out an outbound call: a request
\* whose outbound call never settles never receives a response, and it does
\* not prevent other requests from being served.
C27_UnsettledNeverAnswered ==
    /\ [] NoResponseWhilePending
    /\ OthersServed

\* The two calls that getEnhancedFundingData hands to Promise.all
FetchedTogether == { FEC_TOTALS, FEC_SCHED_B }

\* Request r was answered with a call in flight only in server.js:1453, after
\* one of the two calls fetched together rejected and with the other in flight
AnsweredPastRejection(r) ==
    /\ server = SrvEnh
    /\ req[r].route = "congressman"
    /\ Cardinality(req[r].inflight) = 1
    /\ req[r].inflight \subseteq FetchedTogether
    /\ (FetchedTogether \ req[r].inflight) \subseteq req[r].failed

\* A request with a call in flight changes only when one of its calls settles:
\* no step cancels the call or answers in its place
OnlySettlementResumes ==
    \A r \in Reqs :
        (Pending(r) /\ req'[r] # req[r]) =>
            /\ req'[r].inflight \cap req[r].inflight # req[r].inflight
            /\ req'[r].route = req[r].route

\* C27: no handler cancels or times out an outbound call: a request with a
\* call in flight is resumed only by the settlement of one of its calls, and
\* has no response while one is in flight, except that in server.js:1453 the
\* rejection of one of the two calls fetched together by Promise.all lets the
\* handler answer with the other still in flight; and a request whose calls
\* never settle does not keep a later request from reaching the end of its
\* handler.
C27_UnsettledUnansweredButPromiseAll ==
    /\ [](\A r \in Reqs : (Pending(r) /\ req[r].resp # <<>>) => AnsweredPastRejection(r))
    /\ [][OnlySettlementResumes]_vars
    /\ OthersServed

\* The first request of server.js:780 is suspended at its fetch of the feed and
\* has no response, and the second, arrived after it, has been answered 200
C27_Witness ==
    /\ server = SrvRegion
    /\ req[1].route = "congressman"
    /\ req[1].pc = "feed"
    /\ req[1].inflight = { FEED }
    /\ req[1].resp = <<>>
    /\ req[2].route = "congressman"
    /\ req[2].pc = "done"
    /\ Len(req[2].issued) > 1
    /\ req[2].resp[1].status = 200

\* In server.js:1453 the totals call rejected and the request was answered with
\* the schedule_b call in flight
C27_WitnessPromiseAll ==
    \E r \in Reqs :
        /\ AnsweredPastRejection(r)
        /\ req[r].inflight = { FEC_SCHED_B }
        /\ req[r].pc = "done"
        /\ req[r].resp[1].status = 200

(***************************************************************************)
(* Claims about the selection (checked under SpecSelect)                   *)
(***************************************************************************)

\* The feed has a House member of the state
HasRepOf(feed, state) ==
    \E i \in 1..Len(feed) : feed[i].state = state /\ feed[i].type = "rep"

\* The first House member of the state in the feed, and of the whole feed
FirstRepOf(feed, state) == Find(feed, LAMBDA l : l.state = state /\ l.type = "rep")

FirstRep(feed) == Find(feed, LAMBDA l : l.type = "rep")

\* The versions that select a House member, by the field of selOut
HouseSelectors == { "region", "p1", "enh" }

\* The state the version's table maps the ZIP prefix to, "null" for none
PrefixState(v, zipcode) ==
    CASE v = "region" -> StateOf(getLocationFromZip(zipcode))
      [] v = "p1" -> getStateFromZip_p1(zipcode)
      [] v = "enh" -> StateOf(getRepFromMapping(zipcode))

\* C23 as stated: in the variants that select a House member, whenever the
\* ZIP prefix maps to a state and the feed contains a legislator of that state
\* whose latest term has type 'rep', the selected representative is from that
\* state; the first 'rep' of the whole feed is selected only when the prefix
\* is unmapped or the state has no 'rep' in the feed.
C23_SelectedFromPrefixState ==
    selOut.selected =>
        \A v \in HouseSelectors :
            LET state == PrefixState(v, selIn.zipcode)
            IN  (state # NullStr /\ HasRepOf(selIn.feed, state)) =>
                    /\ selOut[v] # Null
                    /\ selOut[v].state = state

\* The prefix is one of server.js:780's Northern California prefixes
NorthernCal(zipcode) ==
    LET location == getLocationFromZip(zipcode)
    IN  location # Null /\ location.state = "CA" /\ location.region = "north"

\* The feed has a California House member of a district listed for the prefix
HasListedRep(zipcode, feed) ==
    \E i \in 1..Len(feed) :
        /\ feed[i].state = "CA"
        /\ feed[i].type = "rep"
        /\ Includes(getLocationFromZip(zipcode).districts, feed[i].district)

\* C23: part_001, and server.js:780 outside Northern California, select the
\* first 'rep' of the prefix's state when the feed has one, else the first
\* 'rep' of the feed; server.js:780 for a Northern California prefix selects a
\* California 'rep' of a district listed for the prefix, and the first 'rep'
\* of the feed when the feed has none of those; server.js:1453 selects a
\* 'rep' of the state getRepresentativeByZip returned when the feed has one,
\* and the first 'rep' of the feed when it returned null or a state without.
C23_SelectedFromLocatedState ==
    selOut.selected =>
        LET zipcode == selIn.zipcode
            feed == selIn.feed
            p1State == getStateFromZip_p1(zipcode)
            regionState == StateOf(getLocationFromZip(zipcode))
            enhState == StateOf(selOut.repInfo)
        IN  /\ selOut.p1 = IF p1State # NullStr /\ HasRepOf(feed, p1State)
                           THEN FirstRepOf(feed, p1State)
                           ELSE FirstRep(feed)
            /\ ~ NorthernCal(zipcode) =>
                   selOut.region = IF regionState # NullStr /\ HasRepOf(feed, regionState)
                                   THEN FirstRepOf(feed, regionState)
                                   ELSE FirstRep(feed)
            /\ NorthernCal(zipcode) =>
                   IF HasListedRep(zipcode, feed)
                   THEN /\ selOut.region.state = "CA"
                        /\ selOut.region.type = "rep"
                        /\ Includes(getLocationFromZip(zipcode).districts,
                                    selOut.region.district)
                   ELSE selOut.region = FirstRep(feed)
            /\ IF enhState # NullStr /\ HasRepOf(feed, enhState)
               THEN selOut.enh # Null /\ selOut.enh.state = enhState /\ selOut.enh.type = "rep"
               ELSE selOut.enh = FirstRep(feed)

\* For a Northern California ZIP code and a feed whose only California House
\* member sits for a district the prefix does not list, server.js:780 selected
\* the New York member; server.js:1453, its Civic call rejected, did the same;
\* part_001 selected the California member
C23_Witness ==
    /\ selOut.selected
    /\ selIn.zipcode = <<9,4,9,0,3>>
    /\ selIn.feed = << Leg("NY-12", "NY", "rep", 12), Leg("CA-20", "CA", "rep", 20) >>
    /\ selIn.keyed
    /\ selIn.civic = Rejected
    /\ selOut.region.name = "NY-12"
    /\ selOut.repInfo = Null
    /\ selOut.enh.name = "NY-12"
    /\ selOut.p1.name = "CA-20"

\* C24: in part_002 /api/congressman/:zipcode the legislator is chosen by a
\* fixed chain: if the location has a district, the first House member of that
\* state and district; if it has no district, or no such House member exists,
\* the first senator of that state; and only if the state has no senator in
\* the feed, the first legislator of the feed regardless of state.
C24_SelectionChain_p2 ==
    selOut.selected =>
        LET location == getStateFromZip_p2(selIn.zipcode)
            house == Find(selIn.feed,
                          LAMBDA l : /\ l.state = location.state
                                     /\ l.type = "rep"
                                     /\ l.district = location.district)
            senator == Find(selIn.feed,
                            LAMBDA l : l.state = location.state /\ l.type = "sen")
        IN  selOut.p2 = IF location.district # NoDistrict /\ house # Null THEN house
                        ELSE IF senator # Null THEN senator
                        ELSE First(selIn.feed)

\* The ZIP code has a district with no member in the feed, and the state's
\* senator was selected past a House member of another district
C24_Witness ==
    /\ selOut.selected
    /\ selIn.zipcode = <<9,4,9,0,3>>
    /\ getStateFromZip_p2(selIn.zipcode).district = 2
    /\ selIn.feed = << Leg("NY-12", "NY", "rep", 12), Leg("CA-20", "CA", "rep", 20),
                       Leg("CA-sen", "CA", "sen", NoDistrict) >>
    /\ selOut.p2.name = "CA-sen"

(***************************************************************************)
(* Claims about the grouping (checked under SpecVotes)                     *)
(***************************************************************************)

\* The rules in their priority order: the topic, and the words looked for in the
\* question and in the bill title
TopicRules ==
    << [topic |-> "Defense & Military", question |-> {"defense"},
        billTitle |-> {"defense", "military"}],
       [topic |-> "Healthcare", question |-> {"health"}, billTitle |-> {"health", "medicare"}],
       [topic |-> "Budget & Taxes", question |-> {"tax", "budget"}, billTitle |-> {"tax"}],
       [topic |-> "Environment & Energy", question |-> {"environment"},
        billTitle |-> {"climate", "energy"}],
       [topic |-> "Education", question |-> {"education"},
        billTitle |-> {"education", "student"}],
       [topic |-> "Immigration", question |-> {"immigration"},
        billTitle |-> {"immigration", "border"}],
       [topic |-> "Infrastructure", question |-> {"infrastructure"},
        billTitle |-> {"infrastructure", "transportation"}],
       [topic |-> "Nominations", question |-> {"nomination"}, billTitle |-> {}],
       [topic |-> "Procedural Votes", question |-> {"procedure", "motion", "cloture"},
        billTitle |-> {}] >>

\* Rule i matches the vote
Matches(i, vote) ==
    \/ TopicRules[i].question \cap vote.question # {}
    \/ TopicRules[i].billTitle \cap vote.billTitle # {}

\* The topic of the first rule that matches the vote, else 'Other Votes'
FirstMatch(vote) ==
    IF \E i \in 1..Len(TopicRules) : Matches(i, vote)
    THEN TopicRules[CHOOSE i \in 1..Len(TopicRules) :
                        /\ Matches(i, vote)
                        /\ \A j \in 1..(i - 1) : ~ Matches(j, vote)].topic
    ELSE "Other Votes"

\* The votes of the answer that getVotingRecord looks at
First50(votes) == SubSeq(votes, 1, Min(50, Len(votes)))

\* The sizes of the groups added up
SumOfSizes(grouped) ==
    LET topics == { TopicRules[i].topic : i \in 1..Len(TopicRules) } \cup { "Other Votes" }
        size(topic) == IF topic \in DOMAIN grouped THEN Len(grouped[topic]) ELSE 0
        sum[i \in 0..Len(TopicRules)] ==
            IF i = 0 THEN size("Other Votes") ELSE sum[i - 1] + size(TopicRules[i].topic)
    IN  IF DOMAIN grouped \subseteq topics THEN sum[Len(TopicRules)] ELSE -1

\* C26: getVotingRecord puts each of the first 50 upstream votes into exactly
\* one topic group, the group of the first matching rule in the fixed priority
\* order, else 'Other Votes'; the group sizes sum to min(50, number of votes),
\* no group is empty, and votes keep their upstream order inside a group.
C26_GroupedByFirstMatch ==
    votesOut # NotGrouped =>
        LET grouped == votesOut.grouped
            first50 == First50(votesIn)
        IN  /\ \A i \in 1..Len(first50) : FirstMatch(first50[i]) \in DOMAIN grouped
            /\ \A topic \in DOMAIN grouped :
                   /\ grouped[topic] # <<>>
                   /\ grouped[topic] = SelectSeq(first50, LAMBDA v : FirstMatch(v) = topic)
            /\ SumOfSizes(grouped) = Min(50, Len(votesIn))

\* An answer of 51 votes was grouped: 50 of them are in the groups, every topic
\* has one, and the vote that matches 'health' and 'defense' is under Defense
C26_Witness ==
    /\ votesOut # NotGrouped
    /\ Len(votesIn) = 51
    /\ Len(votesOut.raw) = 51
    /\ SumOfSizes(votesOut.grouped) = 50
    /\ Cardinality(DOMAIN votesOut.grouped) = 10
    /\ Vote({"health"}, {"defense"}) = votesOut.grouped["Defense & Military"][1]
    /\ Len(votesOut.grouped["Budget & Taxes"]) > 1

====
